---- MODULE Spec2Model ----
(***************************************************************************)
(* A model of the jreader package of go-jsonstream: the token reader, the  *)
(* typed Reader with its error latch, the array/object iterators and the   *)
(* two-pass skeleton (PreProcess / lazy read / SyncWithPreProcess).        *)
(*                                                                         *)
(* A byte is a one-character string ("[", "1", " ", ...); bytes that have  *)
(* no TLA+ character are written by their hex code ("0x0B", "0x85").       *)
(* Byte offsets are 0-based as in the Go code: data[i] is r.data[i + 1].   *)
(* A Go method with receiver r becomes an operator that takes the receiver *)
(* and returns a record holding the receiver after the call and the        *)
(* method's results. A local of the code, x := e, is the argument of a     *)
(* one-point function: Let([x \in {e} |-> body]) is body with x standing   *)
(* for the value of e.                                                     *)
(***************************************************************************)
EXTENDS Integers, Sequences, FiniteSets

\* ------------------------------------------------------------------ bytes

Lower == {"a", "b", "c", "d", "e", "f", "g", "h", "i", "j", "k", "l", "m",
          "n", "o", "p", "q", "r", "s", "t", "u", "v", "w", "x", "y", "z"}

Digit == {"0", "1", "2", "3", "4", "5", "6", "7", "8", "9"}

Delims == {"[", "]", "{", "}", ":", ","}

\* unicode.IsSpace(rune(ch)) for a byte ch: the Latin-1 space characters
\* '\t', '\n', '\v', '\f', '\r', ' ', U+0085 (NEL), U+00A0 (NBSP).
IsSpace(ch) == ch \in {"\t", "\n", "0x0B", "\f", "\r", " ", "0x85", "0xA0"}

\* Go's data[a:b]
Slice(s, a, b) == SubSeq(s, a + 1, b)

Min(S) == CHOOSE x \in S : \A y \in S : x <= y

\* The value of a function at the one point of its domain
Let(f) == f[CHOOSE x \in DOMAIN f : TRUE]

\* ----------------------------------------------------------------- errors

NoErr == [kind |-> "nil", msg |-> "", value |-> <<>>, expected |-> "",
          actual |-> "", offset |-> 0, nullable |-> FALSE]

SyntaxError(msg, value, offset) ==
    [NoErr EXCEPT !.kind = "SyntaxError", !.msg = msg, !.value = value,
                  !.offset = offset]

TypeError(expected, actual, offset, nullable) ==
    [NoErr EXCEPT !.kind = "TypeError", !.expected = expected,
                  !.actual = actual, !.offset = offset, !.nullable = nullable]

\* io.EOF
EOFError == [NoErr EXCEPT !.kind = "EOF", !.msg = "EOF"]

\* fmt.Errorf(msg) and errors.New(msg)
Errorf(msg) == [NoErr EXCEPT !.kind = "error", !.msg = msg]

errMsgUnexpectedChar == "unexpected character"
errMsgUnexpectedSymbol == "unexpected symbol"
errMsgExpectedColon == "expected ':'"
errMsgInvalidNumber == "invalid number"
errMsgInvalidString == "invalid string"
errMsgDataAfterEnd == "unexpected data after end of JSON value"
errMsgBadArrayItem == "bad array item"
errMsgBadObjectItem == "bad object item"

\* ----------------------------------------------------------------- values

NullValue == "null"
BoolValue == "bool"
NumberValue == "number"
StringValue == "string"
ArrayValue == "array"
ObjectValue == "object"

nullToken == "null"
boolToken == "bool"
numberToken == "number"
stringToken == "string"
delimiterToken == "delimiter"

\* The decomposed number: mantissa is the sequence of its decimal digits
\* (<<>> is 0), so that 19-digit values keep their exact value.
ZeroNumberProps == [raw |-> <<>>, mantissa |-> <<>>, exponent |-> 0,
                    isNegative |-> FALSE, trunc |-> FALSE]

ZeroToken == [kind |-> nullToken, boolValue |-> FALSE,
              numberValue |-> ZeroNumberProps, stringValue |-> <<>>,
              delimiter |-> ""]

\* ArrayState{} and ObjectState{}: r = FALSE is the nil back-reference.
\* index is arrayIndex / objectIndex; state and name are the cursor.
ZeroIter == [r |-> FALSE, index |-> 0, state |-> "BeforeFirst", name |-> <<>>]

ZeroAnyValue == [Kind |-> NullValue, Bool |-> FALSE,
                 Number |-> ZeroNumberProps, String |-> <<>>,
                 Array |-> ZeroIter, Object |-> ZeroIter]

JsonTreeStruct(start) ==
    [Start |-> start, End |-> 0, SubTreeSize |-> 1, AssocValue |-> <<>>,
     ComputedValueType |-> "NothingComputed", ComputedValueIndex |-> 0]

valueKindFromTokenKind(k) ==
    IF k \in {nullToken, boolToken, numberToken, stringToken} THEN k ELSE "-1"

valueKind(t) ==
    IF t.kind = delimiterToken /\ t.delimiter = "[" THEN ArrayValue
    ELSE IF t.kind = delimiterToken /\ t.delimiter = "{" THEN ObjectValue
    ELSE valueKindFromTokenKind(t.kind)

description(t) ==
    IF t.kind = delimiterToken /\ t.delimiter # "[" /\ t.delimiter # "{"
    THEN <<"'", t.delimiter, "'">>
    ELSE <<valueKind(t)>>

badArrayOrObjectItemMessage(isObject) ==
    IF isObject THEN errMsgBadObjectItem ELSE errMsgBadArrayItem

\* ------------------------------------------------------- number scanner

DigitSeq == <<"0", "1", "2", "3", "4", "5", "6", "7", "8", "9">>

DigitVal(d) == (CHOOSE i \in 1..10 : DigitSeq[i] = d) - 1

maxMantDigits == 19

expCap == 10000

\* The digit loop of the scan: acc holds nd, ndMant, mantissa, dp, sawdot,
\* sawdigits and trunc; the result also holds the offset i where it stopped.
RECURSIVE scanMantissa(_, _, _)
scanMantissa(data, i, acc) ==
    IF i >= Len(data) THEN [acc EXCEPT !.i = i]
    ELSE LET c == data[i + 1] IN
         IF c = "." THEN
             IF acc.sawdot THEN [acc EXCEPT !.i = i]
             ELSE scanMantissa(data, i + 1,
                               [acc EXCEPT !.sawdot = TRUE, !.dp = acc.nd])
         ELSE IF c \in Digit THEN
             IF c = "0" /\ acc.nd = 0
             THEN scanMantissa(data, i + 1,
                      [acc EXCEPT !.sawdigits = TRUE, !.dp = acc.dp - 1])
             ELSE IF acc.ndMant < maxMantDigits
             THEN scanMantissa(data, i + 1,
                      [acc EXCEPT !.sawdigits = TRUE, !.nd = acc.nd + 1,
                                  !.ndMant = acc.ndMant + 1,
                                  !.mantissa = Append(acc.mantissa, c)])
             ELSE scanMantissa(data, i + 1,
                      [acc EXCEPT !.sawdigits = TRUE, !.nd = acc.nd + 1,
                                  !.trunc = acc.trunc \/ c # "0"])
         ELSE [acc EXCEPT !.i = i]

\* The exponent digits from offset i, capped: further digits are dropped
\* once the value has reached expCap.
RECURSIVE scanExponent(_, _, _)
scanExponent(data, i, e) ==
    IF i < Len(data) /\ data[i + 1] \in Digit
    THEN scanExponent(data, i + 1,
                      IF e < expCap THEN e * 10 + DigitVal(data[i + 1]) ELSE e)
    ELSE [i |-> i, e |-> e]

\* readNumberProps: the literal starts at offset start (its first byte, '-'
\* or a digit, has been read). ok, the offset after the literal, the props.
readNumberProps(data, start) ==
    LET neg == data[start + 1] = "-"
        i0 == IF neg THEN start + 1 ELSE start
    IN  Let([m \in {scanMantissa(data, i0,
                        [nd |-> 0, ndMant |-> 0, mantissa |-> <<>>, dp |-> 0,
                         sawdot |-> FALSE, sawdigits |-> FALSE, trunc |-> FALSE,
                         i |-> i0])} |->
    LET dp0 == IF m.sawdot THEN m.dp ELSE m.nd
        hasExp == m.i < Len(data) /\ data[m.i + 1] \in {"e", "E"}
        j == m.i + 1
        signed == j < Len(data) /\ data[j + 1] \in {"+", "-"}
        esign == IF j < Len(data) /\ data[j + 1] = "-" THEN -1 ELSE 1
        k == IF signed THEN j + 1 ELSE j
        expOk == k < Len(data) /\ data[k + 1] \in Digit
    IN  Let([x \in {scanExponent(data, k, 0)} |->
    LET end == IF hasExp THEN x.i ELSE m.i
        dp == IF hasExp THEN dp0 + x.e * esign ELSE dp0
        ok == m.sawdigits /\ (hasExp => expOk)
    IN  [ok |-> ok, end |-> end,
         props |-> [raw |-> Slice(data, start, end),
                    mantissa |-> m.mantissa,
                    exponent |-> IF m.mantissa # <<>> THEN dp - m.ndMant ELSE 0,
                    isNegative |-> neg, trunc |-> m.trunc]]])])

\* a <= b for two digit sequences without leading zeros
RECURSIVE DigitsLE(_, _)
DigitsLE(a, b) ==
    IF Len(a) # Len(b) THEN Len(a) < Len(b)
    ELSE IF a = <<>> THEN TRUE
    ELSE IF Head(a) # Head(b) THEN DigitVal(Head(a)) < DigitVal(Head(b))
    ELSE DigitsLE(Tail(a), Tail(b))

MaxInt64Digits == <<"9","2","2","3","3","7","2","0","3","6","8","5","4","7","7","5","8","0","7">>
MinInt64Digits == <<"9","2","2","3","3","7","2","0","3","6","8","5","4","7","7","5","8","0","8">>
MaxUInt64Digits == <<"1","8","4","4","6","7","4","4","0","7","3","7","0","9","5","5","1","6","1","5">>

\* An integer result: sign and decimal digits (<<>> is 0).
IntZero == [neg |-> FALSE, digits |-> <<>>]

RangeError == [NoErr EXCEPT !.kind = "RangeError", !.msg = "value out of range"]

\* NumberProps.Int64
NumberPropsInt64(n) ==
    IF n.exponent # 0 \/ n.trunc
       \/ ~DigitsLE(n.mantissa, IF n.isNegative THEN MinInt64Digits ELSE MaxInt64Digits)
    THEN [v |-> IntZero, err |-> RangeError]
    ELSE [v |-> [neg |-> n.isNegative /\ n.mantissa # <<>>, digits |-> n.mantissa],
          err |-> NoErr]

\* NumberProps.UInt64
NumberPropsUInt64(n) ==
    IF n.isNegative \/ n.exponent # 0 \/ n.trunc
       \/ ~DigitsLE(n.mantissa, MaxUInt64Digits)
    THEN [v |-> IntZero, err |-> RangeError]
    ELSE [v |-> [neg |-> FALSE, digits |-> n.mantissa], err |-> NoErr]

\* A float result, kept as the exact decimal value sign * digits * 10^exp
\* with no trailing zero in digits (<<>> is 0).
FloatZero == [neg |-> FALSE, digits |-> <<>>, exp |-> 0]

RECURSIVE Normalize(_, _, _)
Normalize(neg, digits, exp) ==
    IF digits = <<>> THEN FloatZero
    ELSE IF digits[Len(digits)] = "0"
    THEN Normalize(neg, SubSeq(digits, 1, Len(digits) - 1), exp + 1)
    ELSE [neg |-> neg, digits |-> digits, exp |-> exp]

\* NumberProps.Float64
NumberPropsFloat64(n) ==
    [v |-> Normalize(n.isNegative, n.mantissa, n.exponent), err |-> NoErr]

RECURSIVE StripZeros(_)
StripZeros(d) == IF d # <<>> /\ Head(d) = "0" THEN StripZeros(Tail(d)) ELSE d

AllDigits(s) == \A i \in 1..Len(s) : s[i] \in Digit

\* strconv.ParseInt(string(raw), 10, 64): the value and whether err == nil.
\* A literal that is no base-10 integer gives 0; one out of range gives the
\* nearest bound (both with an error).
ParseInt(raw) ==
    LET signed == raw # <<>> /\ raw[1] \in {"+", "-"}
        neg == raw # <<>> /\ raw[1] = "-"
        body == IF signed THEN Tail(raw) ELSE raw
        d == StripZeros(body)
        lim == IF neg THEN MinInt64Digits ELSE MaxInt64Digits
    IN  IF body = <<>> \/ ~AllDigits(body) THEN [v |-> IntZero, ok |-> FALSE]
        ELSE IF ~DigitsLE(d, lim) THEN [v |-> [neg |-> neg, digits |-> lim], ok |-> FALSE]
        ELSE [v |-> [neg |-> neg /\ d # <<>>, digits |-> d], ok |-> TRUE]

\* strconv.ParseUint(string(raw), 10, 64)
ParseUint(raw) ==
    LET d == StripZeros(raw)
    IN  IF raw = <<>> \/ ~AllDigits(raw) THEN [v |-> IntZero, ok |-> FALSE]
        ELSE IF ~DigitsLE(d, MaxUInt64Digits)
        THEN [v |-> [neg |-> FALSE, digits |-> MaxUInt64Digits], ok |-> FALSE]
        ELSE [v |-> [neg |-> FALSE, digits |-> d], ok |-> TRUE]

\* strconv.ParseFloat(string(raw), 64) on a literal the scanner accepted:
\* the same decimal value, read from the bytes.
ParseFloat(raw) ==
    Let([s \in {readNumberProps(raw, 0)} |->
        IF raw = <<>> \/ ~s.ok \/ s.end # Len(raw) THEN [v |-> FloatZero, ok |-> FALSE]
        ELSE [v |-> Normalize(s.props.isNegative, s.props.mantissa, s.props.exponent),
              ok |-> TRUE]])

\* ----------------------------------------------------------- tokenReader

\* A tokenReader t. The four caller buffers are pointers in the Go code:
\* t.nilBuffers names the ones that are nil, and the contents of the others
\* are t.charBuffer, t.structBuffer.Values and t.computedValuesBuffer.*.
\* t.panicked records a run-time panic (nil dereference, index out of
\* range); a panicking call also reports an error so that it unwinds.
PanicError == [NoErr EXCEPT !.kind = "panic", !.msg = "runtime error"]

Panic(t) == [t EXCEPT !.panicked = TRUE]

ZeroOptions == [lazyParse |-> FALSE, lazyRead |-> FALSE, computeString |-> FALSE,
                computeNumber |-> FALSE, readKey |-> FALSE, readRawNumbers |-> FALSE]

\* tokenReader.Reset
trReset(t, data) ==
    [t EXCEPT !.data = data, !.len = Len(data), !.pos = 0, !.hasUnread = FALSE,
              !.charBuffer = <<>>,
              !.structBuffer = [Pos |-> 0, Values |-> <<>>],
              !.computedValuesBuffer = [NumberValues |-> <<>>, StringValues |-> <<>>],
              !.options = [lazyParse |-> FALSE, lazyRead |-> FALSE,
                           computeString |-> "StringValues" \notin t.nilBuffers,
                           computeNumber |-> "NumberValues" \notin t.nilBuffers,
                           readKey |-> FALSE, readRawNumbers |-> TRUE]]

\* newTokenReader; nilBuffers is the set of buffers the caller left nil.
newTokenReader(data, nilBuffers) ==
    trReset([data |-> <<>>, pos |-> 0, len |-> 0, hasUnread |-> FALSE,
             unreadToken |-> ZeroToken, lastPos |-> 0, charBuffer |-> <<>>,
             structBuffer |-> [Pos |-> 0, Values |-> <<>>],
             computedValuesBuffer |-> [NumberValues |-> <<>>, StringValues |-> <<>>],
             anyValueBuffer |-> ZeroAnyValue, tokenBuffer |-> ZeroToken,
             options |-> ZeroOptions, nilBuffers |-> nilBuffers,
             panicked |-> FALSE], data)

LastPos(t) == t.lastPos

getPos(t) == IF t.hasUnread THEN t.lastPos ELSE t.pos

\* JsonStructPointer.HasNext
HasNext(sb) == sb.Pos < Len(sb.Values)

\* JsonStructPointer.Next
structNext(sb) == IF HasNext(sb) THEN [sb EXCEPT !.Pos = sb.Pos + 1] ELSE sb

\* JsonStructPointer.CurrentStruct: ok is err == nil
CurrentStruct(sb) ==
    IF sb.Pos >= Len(sb.Values) \/ sb.Pos < 0
    THEN [ok |-> FALSE, s |-> JsonTreeStruct(0)]
    ELSE [ok |-> TRUE, s |-> sb.Values[sb.Pos + 1]]

\* SkipSubTree that steps over one descriptor only
SkipSubTree_one(sb) ==
    IF sb.Pos >= Len(sb.Values) THEN [sb |-> sb, ok |-> FALSE]
    ELSE [sb |-> [sb EXCEPT !.Pos = sb.Pos + 1], ok |-> TRUE]

\* JsonStructPointer.SkipSubTree
SkipSubTree(sb) ==
    IF sb.Pos >= Len(sb.Values) THEN [sb |-> sb, ok |-> FALSE]
    ELSE [sb |-> [sb EXCEPT !.Pos = sb.Pos + sb.Values[sb.Pos + 1].SubTreeSize],
          ok |-> TRUE]

\* unreadByte that leaves the position after the byte
unreadByte_stay(t) == t

\* unreadByte: the byte just read is read again
unreadByte(t) == [t EXCEPT !.pos = t.pos - 1]

\* Streaming: readByte until a byte that is no space. Lazy read: the first
\* byte of the current descriptor, and nothing is consumed.
skipWhitespaceAndReadByte(t) ==
    IF t.options.lazyRead THEN
        Let([cur \in {CurrentStruct(t.structBuffer)} |->
        IF ~cur.ok THEN [t |-> t, b |-> "", ok |-> FALSE]
        ELSE IF cur.s.Start >= t.len THEN [t |-> Panic(t), b |-> "", ok |-> FALSE]
        ELSE [t |-> t, b |-> t.data[cur.s.Start + 1], ok |-> TRUE]])
    ELSE IF t.pos < 0 THEN [t |-> Panic(t), b |-> "", ok |-> FALSE]
    ELSE
        LET cand == {i \in t.pos..(t.len - 1) : ~IsSpace(t.data[i + 1])} IN
        IF cand = {}
        THEN [t |-> [t EXCEPT !.pos = IF t.pos > t.len THEN t.pos ELSE t.len],
              b |-> "", ok |-> FALSE]
        ELSE [t |-> [t EXCEPT !.pos = Min(cand) + 1, !.lastPos = Min(cand)],
              b |-> t.data[Min(cand) + 1], ok |-> TRUE]

\* The number of bytes 'a'..'z' from t.pos on; they are consumed.
consumeASCIILowercaseAlphabeticChars(t) ==
    LET stop == {i \in t.pos..(t.len - 1) : t.data[i + 1] \notin Lower}
        end == IF stop = {} THEN (IF t.pos > t.len THEN t.pos ELSE t.len) ELSE Min(stop)
    IN  [t |-> [t EXCEPT !.pos = end], n |-> end - t.pos]

syntaxErrorOnLastToken(t, msg) == SyntaxError(msg, <<>>, LastPos(t))

\* readNumber that takes the byte after the literal into the raw bytes
readNumber_wide(t) ==
    Let([s \in {readNumberProps(t.data, t.lastPos)} |->
    LET t1 == [t EXCEPT !.pos = s.end]
        n == [s.props EXCEPT !.raw = Slice(t.data, t.lastPos, Min({s.end + 1, t.len}))]
    IN  IF ~s.ok THEN [t |-> t1, n |-> n, ok |-> FALSE]
        ELSE IF t.options.lazyParse /\ t.options.computeNumber
        THEN [t |-> [t1 EXCEPT !.computedValuesBuffer.NumberValues = Append(@, n)],
              n |-> n, ok |-> TRUE]
        ELSE [t |-> t1, n |-> n, ok |-> TRUE]])

\* readNumber: the scan, and under lazyParse with a numbers buffer the
\* props are appended to it.
readNumber(t) ==
    Let([s \in {readNumberProps(t.data, t.lastPos)} |->
    LET t1 == [t EXCEPT !.pos = s.end]
    IN  IF ~s.ok THEN [t |-> t1, n |-> s.props, ok |-> FALSE]
        ELSE IF t.options.lazyParse /\ t.options.computeNumber
        THEN [t |-> [t1 EXCEPT !.computedValuesBuffer.NumberValues = Append(@, s.props)],
              n |-> s.props, ok |-> TRUE]
        ELSE [t |-> t1, n |-> s.props, ok |-> TRUE]])

HexDigit == Digit \cup {"a", "b", "c", "d", "e", "f", "A", "B", "C", "D", "E", "F"}

\* The scan-only loop of readString from offset i: the offset of the closing
\* quote, or -1 when the input ends first.
RECURSIVE scanString(_, _, _)
scanString(data, i, haveEscaped) ==
    IF i >= Len(data) THEN -1
    ELSE IF data[i + 1] = "\\" THEN scanString(data, i + 1, ~haveEscaped)
    ELSE IF data[i + 1] = "\"" /\ ~haveEscaped THEN i
    ELSE scanString(data, i + 1, FALSE)

\* The decoding loop that copies the bytes up to the closing quote and
\* resolves no escape sequence
decodeString_raw(data, i, chars) ==
    Let([q \in {scanString(data, i, FALSE)} |->
        [end |-> q, chars |-> IF q < 0 THEN chars ELSE chars \o Slice(data, i, q)]])

\* The decoding loop of readString from offset i, appending to chars: the
\* offset of the closing quote (-1 on an error) and the chars buffer. A
\* \uXXXX escape appends the code point as the one element "U+XXXX".
RECURSIVE decodeString(_, _, _)
decodeString(data, i, chars) ==
    IF i >= Len(data) THEN [end |-> -1, chars |-> chars]
    ELSE LET ch == data[i + 1] IN
         IF ch = "\"" THEN [end |-> i, chars |-> chars]
         ELSE IF ch # "\\" THEN decodeString(data, i + 1, Append(chars, ch))
         ELSE IF i + 1 >= Len(data) THEN [end |-> -1, chars |-> chars]
         ELSE LET e == data[i + 2] IN
              IF e \in {"\"", "\\", "/"} THEN decodeString(data, i + 2, Append(chars, e))
              ELSE IF e = "b" THEN decodeString(data, i + 2, Append(chars, "0x08"))
              ELSE IF e = "f" THEN decodeString(data, i + 2, Append(chars, "\f"))
              ELSE IF e = "n" THEN decodeString(data, i + 2, Append(chars, "\n"))
              ELSE IF e = "r" THEN decodeString(data, i + 2, Append(chars, "\r"))
              ELSE IF e = "t" THEN decodeString(data, i + 2, Append(chars, "\t"))
              ELSE IF e = "u" THEN
                  IF i + 6 <= Len(data) /\ \A k \in 3..6 : data[i + k] \in HexDigit
                  THEN decodeString(data, i + 6,
                           Append(chars, "U+" \o data[i + 3] \o data[i + 4]
                                              \o data[i + 5] \o data[i + 6]))
                  ELSE [end |-> -1, chars |-> chars]
              ELSE [end |-> -1, chars |-> chars]

\* readString: t.pos is just past the opening quote.
readString(t) ==
    IF "charBuffer" \in t.nilBuffers
    THEN [t |-> Panic(t), s |-> <<>>, err |-> PanicError]
    ELSE IF t.options.readKey \/ ~t.options.computeString THEN
        Let([q \in {scanString(t.data, t.pos, FALSE)} |->
        IF q < 0 THEN [t |-> t, s |-> <<>>,
                       err |-> syntaxErrorOnLastToken(t, errMsgInvalidString)]
        ELSE [t |-> [t EXCEPT !.pos = q + 1],
              s |-> IF q <= t.pos THEN <<>> ELSE Slice(t.data, t.pos, q),
              err |-> NoErr]])
    ELSE
        LET charsStartPos == Len(t.charBuffer)
        IN  Let([d \in {decodeString(t.data, t.pos, t.charBuffer)} |->
        LET t1 == [t EXCEPT !.charBuffer = d.chars]
            s == Slice(d.chars, charsStartPos, Len(d.chars))
        IN  IF d.end < 0 THEN [t |-> t1, s |-> <<>>,
                               err |-> syntaxErrorOnLastToken(t, errMsgInvalidString)]
            ELSE [t |-> IF t.options.lazyParse
                        THEN [t1 EXCEPT !.pos = d.end + 1,
                                        !.computedValuesBuffer.StringValues = Append(@, s)]
                        ELSE [t1 EXCEPT !.pos = d.end + 1],
                  s |-> s, err |-> NoErr]])

\* putBack that forgets the token
putBack_lost(t, token) == [t EXCEPT !.unreadToken = token]

\* putBack
putBack(t, token) == [t EXCEPT !.unreadToken = token, !.hasUnread = TRUE]

\* What next() returns: the token (nil is TRUE for a nil *token) and the error.
TokenOk(t, tb) ==
    [t |-> [t EXCEPT !.tokenBuffer = tb], tok |-> tb, nil |-> FALSE, err |-> NoErr]

TokenErr(t, err) == [t |-> t, tok |-> ZeroToken, nil |-> TRUE, err |-> err]

\* next() in lazy-read mode, b being the first byte of the current descriptor
nextLazy(t, b) ==
    Let([cur \in {CurrentStruct(t.structBuffer).s} |->
    LET adv == [t EXCEPT !.structBuffer = structNext(t.structBuffer)]
    IN
    IF b \in Lower THEN
        IF b = "f" THEN TokenOk(adv, [t.tokenBuffer EXCEPT !.kind = boolToken, !.boolValue = FALSE])
        ELSE IF b = "t" THEN TokenOk(adv, [t.tokenBuffer EXCEPT !.kind = boolToken, !.boolValue = TRUE])
        ELSE IF b = "n" THEN TokenOk(adv, [t.tokenBuffer EXCEPT !.kind = nullToken])
        ELSE TokenErr(adv, SyntaxError(errMsgUnexpectedSymbol, <<b>>, t.lastPos))
    ELSE IF b \in Digit \/ b = "-" THEN
        IF t.options.computeNumber THEN
            IF cur.ComputedValueIndex < 0
               \/ cur.ComputedValueIndex >= Len(t.computedValuesBuffer.NumberValues)
            THEN TokenErr(Panic(t), PanicError)
            ELSE TokenOk(adv, [t.tokenBuffer EXCEPT
                     !.kind = numberToken,
                     !.numberValue = t.computedValuesBuffer.NumberValues[cur.ComputedValueIndex + 1]])
        ELSE IF cur.End < cur.Start \/ cur.End > t.len
        THEN TokenErr(Panic(t), PanicError)
        ELSE TokenOk(adv, [t.tokenBuffer EXCEPT
                 !.kind = numberToken,
                 !.numberValue = [ZeroNumberProps EXCEPT !.raw = Slice(t.data, cur.Start, cur.End)]])
    ELSE IF b = "\"" THEN
        IF cur.End - 1 < cur.Start + 1 \/ cur.End - 1 > t.len
        THEN TokenErr(Panic(t), PanicError)
        ELSE IF t.options.computeString /\ ~t.options.readKey THEN
            IF cur.ComputedValueIndex < 0
               \/ cur.ComputedValueIndex >= Len(t.computedValuesBuffer.StringValues)
            THEN TokenErr(Panic(t), PanicError)
            ELSE TokenOk(adv, [t.tokenBuffer EXCEPT
                     !.kind = stringToken,
                     !.stringValue = t.computedValuesBuffer.StringValues[cur.ComputedValueIndex + 1]])
        ELSE TokenOk(adv, [t.tokenBuffer EXCEPT
                 !.kind = stringToken,
                 !.stringValue = Slice(t.data, cur.Start + 1, cur.End - 1)])
    ELSE IF b \in Delims THEN
        TokenOk(t, [t.tokenBuffer EXCEPT !.kind = delimiterToken, !.delimiter = b])
    ELSE TokenErr(t, SyntaxError(errMsgUnexpectedChar, <<b>>, t.lastPos))])

\* next() in streaming mode, b being the byte just read at t.lastPos
nextStream(t, b) ==
    IF b \in Lower THEN
        Let([c \in {consumeASCIILowercaseAlphabeticChars(t)} |->
        LET id == Slice(t.data, t.lastPos, t.lastPos + c.n + 1)
        IN  IF id = <<"f", "a", "l", "s", "e">>
            THEN TokenOk(c.t, [t.tokenBuffer EXCEPT !.kind = boolToken, !.boolValue = FALSE])
            ELSE IF id = <<"t", "r", "u", "e">>
            THEN TokenOk(c.t, [t.tokenBuffer EXCEPT !.kind = boolToken, !.boolValue = TRUE])
            ELSE IF id = <<"n", "u", "l", "l">>
            THEN TokenOk(c.t, [t.tokenBuffer EXCEPT !.kind = nullToken])
            ELSE TokenErr(c.t, SyntaxError(errMsgUnexpectedSymbol, id, t.lastPos))])
    ELSE IF b \in Digit \/ b = "-" THEN
        Let([n \in {readNumber(t)} |->
        IF n.ok
        THEN TokenOk(n.t, [t.tokenBuffer EXCEPT !.kind = numberToken, !.numberValue = n.n])
        ELSE TokenErr(n.t, SyntaxError(errMsgInvalidNumber, <<>>, t.lastPos))])
    ELSE IF b = "\"" THEN
        Let([s \in {readString(t)} |->
        IF s.err # NoErr THEN TokenErr(s.t, s.err)
        ELSE TokenOk(s.t, [t.tokenBuffer EXCEPT !.kind = stringToken, !.stringValue = s.s])])
    ELSE IF b \in Delims THEN
        TokenOk(t, [t.tokenBuffer EXCEPT !.kind = delimiterToken, !.delimiter = b])
    ELSE TokenErr(t, SyntaxError(errMsgUnexpectedChar, <<b>>, t.lastPos))

\* next that leaves the pushed-back token in its place
next_again(t) ==
    IF t.hasUnread
    THEN [t |-> t, tok |-> t.unreadToken, nil |-> FALSE, err |-> NoErr]
    ELSE Let([s \in {skipWhitespaceAndReadByte(t)} |->
         IF ~s.ok THEN TokenErr(s.t, IF s.t.panicked THEN PanicError ELSE EOFError)
         ELSE IF t.options.lazyRead THEN nextLazy(s.t, s.b)
         ELSE nextStream(s.t, s.b)])

\* next: the pushed-back token if there is one, else the next token
next(t) ==
    IF t.hasUnread
    THEN [t |-> [t EXCEPT !.hasUnread = FALSE], tok |-> t.unreadToken,
          nil |-> FALSE, err |-> NoErr]
    ELSE Let([s \in {skipWhitespaceAndReadByte(t)} |->
         IF ~s.ok THEN TokenErr(s.t, IF s.t.panicked THEN PanicError ELSE EOFError)
         ELSE IF t.options.lazyRead THEN nextLazy(s.t, s.b)
         ELSE nextStream(s.t, s.b)])

\* consumeScalar: the next token must be a scalar of the given kind
consumeScalar(t, kind) ==
    Let([n \in {next(t)} |->
    IF n.err # NoErr THEN TokenErr(n.t, n.err)
    ELSE IF n.tok.kind = kind THEN n
    ELSE IF n.tok.kind = delimiterToken /\ n.tok.delimiter # "[" /\ n.tok.delimiter # "{"
    THEN TokenErr(n.t, SyntaxError(errMsgUnexpectedChar, <<n.tok.delimiter>>, LastPos(n.t)))
    ELSE TokenErr(n.t, TypeError(valueKindFromTokenKind(kind), valueKind(n.tok),
                                 LastPos(n.t), FALSE))])

\* tokenReader.Null: (isNull, err)
trNull(t) ==
    Let([n \in {next(t)} |->
    IF n.nil \/ n.err # NoErr THEN [t |-> n.t, isNull |-> FALSE, err |-> n.err]
    ELSE IF n.tok.kind = nullToken THEN [t |-> n.t, isNull |-> TRUE, err |-> NoErr]
    ELSE LET t1 == putBack(n.t, n.tok) IN
         IF n.tok.kind = delimiterToken /\ n.tok.delimiter # "[" /\ n.tok.delimiter # "{"
         THEN [t |-> t1, isNull |-> FALSE,
               err |-> SyntaxError(errMsgUnexpectedChar, <<n.tok.delimiter>>, getPos(t1))]
         ELSE [t |-> t1, isNull |-> FALSE, err |-> NoErr]])

\* tokenReader.Bool: (value, err)
trBool(t) ==
    Let([c \in {consumeScalar(t, boolToken)} |->
    [t |-> c.t, v |-> IF c.nil THEN FALSE ELSE c.tok.boolValue, err |-> c.err]])

\* tokenReader.Number: (*NumberProps, err); nil is TRUE for a nil pointer
trNumber(t) ==
    Let([c \in {consumeScalar(t, numberToken)} |->
    [t |-> c.t, v |-> IF c.nil THEN ZeroNumberProps ELSE c.tok.numberValue,
     nil |-> c.nil, err |-> c.err]])

\* tokenReader.String: (bytes, err)
trString(t) ==
    Let([c \in {consumeScalar(t, stringToken)} |->
    [t |-> c.t, v |-> IF c.nil THEN <<>> ELSE c.tok.stringValue, err |-> c.err]])

\* syntaxErrorOnNextToken
syntaxErrorOnNextToken(t, msg) ==
    Let([n \in {next(t)} |->
    [t |-> n.t,
     err |-> IF n.err # NoErr THEN n.err
             ELSE SyntaxError(msg, description(n.tok), LastPos(n.t))]])

\* tokenReader.PropertyName: (name, err). readKey is set for the call and
\* cleared when it returns.
PropertyName(t) ==
    Let([c \in {consumeScalar([t EXCEPT !.options.readKey = TRUE], stringToken)} |->
    LET done(x) == [x EXCEPT !.options.readKey = FALSE]
    IN  IF c.nil \/ c.err # NoErr THEN [t |-> done(c.t), name |-> <<>>, err |-> c.err]
        ELSE Let([s \in {skipWhitespaceAndReadByte(c.t)} |->
             IF ~s.ok THEN [t |-> done(s.t), name |-> <<>>,
                            err |-> IF s.t.panicked THEN PanicError ELSE EOFError]
             ELSE IF s.b # ":" THEN
                 Let([e \in {syntaxErrorOnNextToken(unreadByte(s.t), errMsgExpectedColon)} |->
                     [t |-> done(e.t), name |-> <<>>, err |-> e.err]])
             ELSE [t |-> done(s.t), name |-> c.tok.stringValue, err |-> NoErr]])])

\* Delimiter that drops the error of the token it meets
Delimiter_lenient(t, delimiter) ==
    IF t.options.lazyRead THEN
        Let([cur \in {CurrentStruct(t.structBuffer)} |->
        IF ~cur.ok THEN [t |-> t, got |-> FALSE, err |-> Errorf("no elements in structure")]
        ELSE IF cur.s.Start >= t.len THEN [t |-> Panic(t), got |-> FALSE, err |-> PanicError]
        ELSE [t |-> t, got |-> t.data[cur.s.Start + 1] = delimiter, err |-> NoErr]])
    ELSE IF t.hasUnread THEN
        IF t.unreadToken.kind = delimiterToken /\ t.unreadToken.delimiter = delimiter
        THEN [t |-> [t EXCEPT !.hasUnread = FALSE], got |-> TRUE, err |-> NoErr]
        ELSE [t |-> t, got |-> FALSE, err |-> NoErr]
    ELSE
        Let([s \in {skipWhitespaceAndReadByte(t)} |->
        IF ~s.ok THEN [t |-> s.t, got |-> FALSE,
                       err |-> IF s.t.panicked THEN PanicError ELSE NoErr]
        ELSE IF s.b = delimiter THEN [t |-> s.t, got |-> TRUE, err |-> NoErr]
        ELSE Let([n \in {next(unreadByte(s.t))} |->
             IF n.nil \/ n.err # NoErr THEN [t |-> n.t, got |-> FALSE, err |-> NoErr]
             ELSE [t |-> putBack(n.t, n.tok), got |-> FALSE, err |-> NoErr]])])

\* tokenReader.Delimiter: (gotDelim, err)
Delimiter(t, delimiter) ==
    IF t.options.lazyRead THEN
        Let([cur \in {CurrentStruct(t.structBuffer)} |->
        IF ~cur.ok THEN [t |-> t, got |-> FALSE, err |-> Errorf("no elements in structure")]
        ELSE IF cur.s.Start >= t.len THEN [t |-> Panic(t), got |-> FALSE, err |-> PanicError]
        ELSE [t |-> t, got |-> t.data[cur.s.Start + 1] = delimiter, err |-> NoErr]])
    ELSE IF t.hasUnread THEN
        IF t.unreadToken.kind = delimiterToken /\ t.unreadToken.delimiter = delimiter
        THEN [t |-> [t EXCEPT !.hasUnread = FALSE], got |-> TRUE, err |-> NoErr]
        ELSE [t |-> t, got |-> FALSE, err |-> NoErr]
    ELSE
        Let([s \in {skipWhitespaceAndReadByte(t)} |->
        IF ~s.ok THEN [t |-> s.t, got |-> FALSE,
                       err |-> IF s.t.panicked THEN PanicError ELSE NoErr]
        ELSE IF s.b = delimiter THEN [t |-> s.t, got |-> TRUE, err |-> NoErr]
        ELSE Let([n \in {next(unreadByte(s.t))} |->
             IF n.nil \/ n.err # NoErr THEN [t |-> n.t, got |-> FALSE, err |-> n.err]
             ELSE [t |-> putBack(n.t, n.tok), got |-> FALSE, err |-> NoErr]])])

\* tokenReader.EndDelimiterOrComma: (isEnd, err)
EndDelimiterOrComma(t, delimiter) ==
    IF t.options.lazyRead
    THEN [t |-> t, isEnd |-> FALSE, err |-> Errorf("can't be used in lazy mode")]
    ELSE IF t.hasUnread THEN
        IF t.unreadToken.kind = delimiterToken
           /\ t.unreadToken.delimiter \in {delimiter, ","}
        THEN [t |-> [t EXCEPT !.hasUnread = FALSE],
              isEnd |-> t.unreadToken.delimiter = delimiter, err |-> NoErr]
        ELSE [t |-> t, isEnd |-> FALSE,
              err |-> SyntaxError(badArrayOrObjectItemMessage(delimiter = "}"),
                                  description(t.unreadToken), t.lastPos)]
    ELSE
        Let([s \in {skipWhitespaceAndReadByte(t)} |->
        IF ~s.ok THEN [t |-> s.t, isEnd |-> FALSE,
                       err |-> IF s.t.panicked THEN PanicError ELSE EOFError]
        ELSE IF s.b = delimiter \/ s.b = ","
        THEN [t |-> s.t, isEnd |-> s.b = delimiter, err |-> NoErr]
        ELSE Let([n \in {next(unreadByte(s.t))} |->
             IF n.nil \/ n.err # NoErr THEN [t |-> n.t, isEnd |-> FALSE, err |-> n.err]
             ELSE [t |-> n.t, isEnd |-> FALSE,
                   err |-> SyntaxError(badArrayOrObjectItemMessage(delimiter = "}"),
                                       description(n.tok), n.t.lastPos)]])])

\* tokenReader.Any: (*AnyValue, err). The value is written into
\* t.anyValueBuffer and a pointer to that buffer is returned: v is the
\* buffer at the return, nil is TRUE for a nil pointer.
trAny(t) ==
    Let([n \in {next(t)} |->
    LET ok(buf) == [t |-> [n.t EXCEPT !.anyValueBuffer = buf], v |-> buf,
                    nil |-> FALSE, err |-> NoErr]
        b == n.t.anyValueBuffer
    IN
    IF n.nil THEN [t |-> n.t, v |-> ZeroAnyValue, nil |-> TRUE, err |-> n.err]
    ELSE IF n.err # NoErr THEN [t |-> n.t, v |-> b, nil |-> FALSE, err |-> n.err]
    ELSE IF n.tok.kind = boolToken
    THEN ok([b EXCEPT !.Kind = BoolValue, !.Bool = n.tok.boolValue])
    ELSE IF n.tok.kind = numberToken
    THEN ok([b EXCEPT !.Kind = NumberValue, !.Number = n.tok.numberValue])
    ELSE IF n.tok.kind = stringToken
    THEN ok([b EXCEPT !.Kind = StringValue, !.String = n.tok.stringValue])
    ELSE IF n.tok.kind = delimiterToken THEN
        IF n.tok.delimiter = "[" THEN ok([b EXCEPT !.Kind = ArrayValue])
        ELSE IF n.tok.delimiter = "{" THEN ok([b EXCEPT !.Kind = ObjectValue])
        ELSE [t |-> n.t, v |-> ZeroAnyValue, nil |-> TRUE,
              err |-> SyntaxError(errMsgUnexpectedChar, <<n.tok.delimiter>>, n.t.lastPos)]
    ELSE ok([b EXCEPT !.Kind = NullValue])])

\* tokenReader.EOF
EOF(t) ==
    IF t.hasUnread THEN [t |-> t, eof |-> FALSE]
    ELSE Let([s \in {skipWhitespaceAndReadByte(t)} |->
         IF ~s.ok THEN [t |-> s.t, eof |-> TRUE]
         ELSE [t |-> unreadByte(s.t), eof |-> FALSE]])

\* ------------------------------------------------------------------ Reader

\* What a Reader method returns, one field per kind of result. nil is TRUE
\* when a pointer result (*NumberProps, *AnyValue) is nil; err is a
\* returned error (Null, SkipValue, RequireEOF). tree and count are the
\* results of the tests' and examples' walks.
ZeroRes == [bool |-> FALSE, bytes |-> <<>>, num |-> ZeroNumberProps,
            int |-> IntZero, float |-> FloatZero, nonNull |-> FALSE,
            nil |-> TRUE, any |-> ZeroAnyValue, iter |-> ZeroIter,
            err |-> NoErr, tree |-> [t |-> "none"], count |-> 0]

\* NewReaderWithBuffers; nilBuffers is the set of buffers left nil in the
\* BufferConfig
NewReaderWithBuffers(data, nilBuffers) ==
    [tr |-> [newTokenReader(data, nilBuffers) EXCEPT !.options.readRawNumbers = TRUE],
     awaitingReadValue |-> FALSE,
     err |-> IF "charBuffer" \in nilBuffers
             THEN Errorf("char buffer must be initilized") ELSE NoErr]

\* NewReader
NewReader(data) == NewReaderWithBuffers(data, {"StringValues", "NumberValues"})

\* Reader.Reset
Reset(r, data) ==
    [r EXCEPT !.err = NoErr, !.awaitingReadValue = FALSE, !.tr = trReset(r.tr, data)]

\* Reader.Error
Error(r) == r.err

\* AddError that overwrites the error the reader remembers
AddError_overwrite(r, err) == [r EXCEPT !.err = err]

\* Reader.AddError
AddError(r, err) == IF r.err = NoErr THEN [r EXCEPT !.err = err] ELSE r

\* ReplaceError that sets the error to what it is given, nil or not
ReplaceError_clear(r, err) == [r EXCEPT !.err = err]

\* Reader.ReplaceError
ReplaceError(r, err) == IF err # NoErr THEN [r EXCEPT !.err = err] ELSE r

\* Reader.SetNumberRawRead
SetNumberRawRead(r, readRaw) == [r EXCEPT !.tr.options.readRawNumbers = readRaw]

\* Reader.IsPreProcessed
IsPreProcessed(r) == r.tr.options.lazyRead /\ HasNext(r.tr.structBuffer)

\* Reader.IsNumbersRaw
IsNumbersRaw(r) == r.tr.options.lazyRead /\ ~r.tr.options.computeNumber

\* Reader.RequireEOF
RequireEOF(r) ==
    Let([e \in {EOF(r.tr)} |->
    [r |-> [r EXCEPT !.tr = e.t],
     res |-> [ZeroRes EXCEPT !.err = IF e.eof THEN NoErr
                                     ELSE SyntaxError(errMsgDataAfterEnd, <<>>, LastPos(e.t))]]])

\* typeErrorForNullableValue that returns the error as it got it
typeErrorForNullableValue_same(err) == err

\* typeErrorForNullableValue
typeErrorForNullableValue(err) ==
    IF err.kind = "TypeError" THEN [err EXCEPT !.nullable = TRUE] ELSE err

\* Reader.typeErrorForCurrentToken: the error, and the token reader after
typeErrorForCurrentToken(t, expected, nullable) ==
    Let([a \in {trAny(t)} |->
    [t |-> a.t,
     err |-> IF a.err # NoErr THEN a.err
             ELSE TypeError(expected, a.v.Kind, LastPos(a.t), nullable)]])

\* The common start of the typed reads
NotAwaiting(r) == [r EXCEPT !.awaitingReadValue = FALSE]

\* return <zero values> after r.err = err
Failed(r, t, err) == [r |-> [r EXCEPT !.tr = t, !.err = err], res |-> ZeroRes]

\* return res with the token reader at t
Returned(r, t, res) == [r |-> [r EXCEPT !.tr = t], res |-> res]

\* Reader.Null
Null(r) ==
    LET r0 == NotAwaiting(r) IN
    IF r.err # NoErr THEN [r |-> r0, res |-> [ZeroRes EXCEPT !.err = r.err]]
    ELSE Let([n \in {trNull(r0.tr)} |->
         IF n.isNull \/ n.err # NoErr
         THEN Returned(r0, n.t, [ZeroRes EXCEPT !.err = n.err])
         ELSE Let([e \in {typeErrorForCurrentToken(n.t, NullValue, FALSE)} |->
                  Returned(r0, e.t, [ZeroRes EXCEPT !.err = e.err])])])

\* Bool without the check of the latch at its start
Bool_unlatched(r) ==
    LET r0 == NotAwaiting(r)
    IN  Let([b \in {trBool(r0.tr)} |->
        IF b.err # NoErr THEN Failed(r0, b.t, b.err)
        ELSE Returned(r0, b.t, [ZeroRes EXCEPT !.bool = b.v])])

\* Reader.Bool
Bool(r) ==
    LET r0 == NotAwaiting(r) IN
    IF r.err # NoErr THEN [r |-> r0, res |-> ZeroRes]
    ELSE Let([b \in {trBool(r0.tr)} |->
         IF b.err # NoErr THEN Failed(r0, b.t, b.err)
         ELSE Returned(r0, b.t, [ZeroRes EXCEPT !.bool = b.v])])

\* Reader.BoolOrNull
BoolOrNull(r) ==
    LET r0 == NotAwaiting(r) IN
    IF r.err # NoErr THEN [r |-> r0, res |-> ZeroRes]
    ELSE Let([n \in {trNull(r0.tr)} |->
         IF n.isNull \/ n.err # NoErr THEN Failed(r0, n.t, n.err)
         ELSE Let([b \in {trBool(n.t)} |->
              IF b.err # NoErr THEN Failed(r0, b.t, typeErrorForNullableValue(b.err))
              ELSE Returned(r0, b.t, [ZeroRes EXCEPT !.bool = b.v, !.nonNull = TRUE])])])

\* The shared shape of the number reads: conv(r, props) gives the result
\* record and the error of the conversion.
NumberRead(r, conv(_, _)) ==
    LET r0 == NotAwaiting(r) IN
    IF r.err # NoErr THEN [r |-> r0, res |-> ZeroRes]
    ELSE Let([n \in {trNumber(r0.tr)} |->
         IF n.err # NoErr THEN Failed(r0, n.t, n.err)
         ELSE LET c == conv(r0, n.v) IN
              IF c.err # NoErr THEN Failed(r0, n.t, c.err)
              ELSE Returned(r0, n.t, c.res)])

NumberOrNullRead(r, conv(_, _)) ==
    LET r0 == NotAwaiting(r) IN
    IF r.err # NoErr THEN [r |-> r0, res |-> ZeroRes]
    ELSE Let([z \in {trNull(r0.tr)} |->
         IF z.isNull \/ z.err # NoErr THEN Failed(r0, z.t, z.err)
         ELSE Let([n \in {trNumber(z.t)} |->
              IF n.err # NoErr THEN Failed(r0, n.t, typeErrorForNullableValue(n.err))
              ELSE LET c == conv(r0, n.v) IN
                   IF c.err # NoErr THEN Failed(r0, n.t, c.err)
                   ELSE Returned(r0, n.t, c.res)])])

convProps(r, n) == [res |-> [ZeroRes EXCEPT !.num = n, !.nil = FALSE], err |-> NoErr]
convPropsOrNull(r, n) ==
    [res |-> [ZeroRes EXCEPT !.num = n, !.nil = FALSE, !.nonNull = TRUE], err |-> NoErr]
convRaw(r, n) == [res |-> [ZeroRes EXCEPT !.bytes = n.raw], err |-> NoErr]
convRawOrNull(r, n) == [res |-> [ZeroRes EXCEPT !.bytes = n.raw, !.nonNull = TRUE], err |-> NoErr]

convInt64(r, n) ==
    IF IsNumbersRaw(r) THEN [res |-> [ZeroRes EXCEPT !.int = ParseInt(n.raw).v], err |-> NoErr]
    ELSE Let([c \in {NumberPropsInt64(n)} |->
             [res |-> [ZeroRes EXCEPT !.int = c.v], err |-> c.err]])
convInt64OrNull(r, n) ==
    IF IsNumbersRaw(r)
    THEN Let([p \in {ParseInt(n.raw)} |->
         [res |-> [ZeroRes EXCEPT !.int = p.v, !.nonNull = p.ok], err |-> NoErr]])
    ELSE Let([c \in {NumberPropsInt64(n)} |->
         [res |-> [ZeroRes EXCEPT !.int = c.v, !.nonNull = TRUE], err |-> c.err]])

convUInt64(r, n) ==
    IF IsNumbersRaw(r) THEN [res |-> [ZeroRes EXCEPT !.int = ParseUint(n.raw).v], err |-> NoErr]
    ELSE Let([c \in {NumberPropsUInt64(n)} |->
             [res |-> [ZeroRes EXCEPT !.int = c.v], err |-> c.err]])
convUInt64OrNull(r, n) ==
    IF IsNumbersRaw(r)
    THEN Let([p \in {ParseUint(n.raw)} |->
         [res |-> [ZeroRes EXCEPT !.int = p.v, !.nonNull = p.ok], err |-> NoErr]])
    ELSE Let([c \in {NumberPropsUInt64(n)} |->
         [res |-> [ZeroRes EXCEPT !.int = c.v, !.nonNull = TRUE], err |-> c.err]])

convFloat64(r, n) ==
    IF IsNumbersRaw(r) THEN [res |-> [ZeroRes EXCEPT !.float = ParseFloat(n.raw).v], err |-> NoErr]
    ELSE Let([c \in {NumberPropsFloat64(n)} |->
             [res |-> [ZeroRes EXCEPT !.float = c.v], err |-> c.err]])
convFloat64OrNull(r, n) ==
    IF IsNumbersRaw(r)
    THEN Let([p \in {ParseFloat(n.raw)} |->
         [res |-> [ZeroRes EXCEPT !.float = p.v, !.nonNull = p.ok], err |-> NoErr]])
    ELSE Let([c \in {NumberPropsFloat64(n)} |->
         [res |-> [ZeroRes EXCEPT !.float = c.v, !.nonNull = TRUE], err |-> c.err]])

NumberProps(r) == NumberRead(r, convProps)
NumberPropsOrNull(r) == NumberOrNullRead(r, convPropsOrNull)
Number(r) == NumberRead(r, convRaw)
NumberOrNull(r) == NumberOrNullRead(r, convRawOrNull)
UInt64(r) == NumberRead(r, convUInt64)
UInt64OrNull(r) == NumberOrNullRead(r, convUInt64OrNull)
Int64(r) == NumberRead(r, convInt64)
Int64OrNull(r) == NumberOrNullRead(r, convInt64OrNull)
Float64(r) == NumberRead(r, convFloat64)
Float64OrNull(r) == NumberOrNullRead(r, convFloat64OrNull)

\* Reader.String
String(r) ==
    LET r0 == NotAwaiting(r) IN
    IF r.err # NoErr THEN [r |-> r0, res |-> ZeroRes]
    ELSE Let([v \in {trString(r0.tr)} |->
         IF v.err # NoErr THEN Failed(r0, v.t, v.err)
         ELSE Returned(r0, v.t, [ZeroRes EXCEPT !.bytes = v.v])])

\* Reader.StringOrNull
StringOrNull(r) ==
    LET r0 == NotAwaiting(r) IN
    IF r.err # NoErr THEN [r |-> r0, res |-> ZeroRes]
    ELSE Let([n \in {trNull(r0.tr)} |->
         IF n.isNull \/ n.err # NoErr THEN Failed(r0, n.t, n.err)
         ELSE Let([v \in {trString(n.t)} |->
              IF v.err # NoErr THEN Failed(r0, v.t, typeErrorForNullableValue(v.err))
              ELSE Returned(r0, v.t, [ZeroRes EXCEPT !.bytes = v.v, !.nonNull = TRUE])])])

\* The stub ArrayState{} where tryArray and tryObject build a state
NewIter_stub(t) == ZeroIter

\* ArrayState{r: r, arrayIndex: ...} as tryArray and tryObject build it
NewIter(t) ==
    [ZeroIter EXCEPT !.r = TRUE,
                     !.index = IF t.options.lazyRead THEN t.structBuffer.Pos ELSE 0]

\* Reader.tryArray and Reader.tryObject (open is '[' or '{')
tryContainer(r, allowNull, open, expected) ==
    LET r0 == NotAwaiting(r)
    IN  Let([n \in {IF allowNull THEN trNull(r0.tr)
                    ELSE [t |-> r0.tr, isNull |-> FALSE, err |-> NoErr]} |->
    IF r.err # NoErr THEN [r |-> r0, res |-> ZeroRes]
    ELSE IF n.err # NoErr \/ n.isNull THEN Failed(r0, n.t, n.err)
    ELSE Let([d \in {Delimiter(n.t, open)} |->
         IF d.err # NoErr THEN Failed(r0, d.t, d.err)
         ELSE IF d.got THEN Returned(r0, d.t, [ZeroRes EXCEPT !.iter = NewIter(d.t)])
         ELSE Let([e \in {typeErrorForCurrentToken(d.t, expected, allowNull)} |->
                  Failed(r0, e.t, e.err)])])])

tryArray(r, allowNull) == tryContainer(r, allowNull, "[", ArrayValue)
tryObject(r, allowNull) == tryContainer(r, allowNull, "{", ObjectValue)
Array(r) == tryArray(r, FALSE)
ArrayOrNull(r) == tryArray(r, TRUE)
Object(r) == tryObject(r, FALSE)
ObjectOrNull(r) == tryObject(r, TRUE)

\* Reader.Any: the result points into r.tr.anyValueBuffer, whose Array and
\* Object iterators get r and the descriptor index and keep the rest.
Any(r) ==
    LET r0 == NotAwaiting(r) IN
    IF r.err # NoErr THEN [r |-> r0, res |-> ZeroRes]
    ELSE Let([a \in {trAny(r0.tr)} |->
         IF a.err # NoErr THEN Failed(r0, a.t, a.err)
         ELSE LET buf == IF a.v.Kind = ArrayValue
                         THEN [a.v EXCEPT !.Array.index = a.t.structBuffer.Pos,
                                          !.Array.r = TRUE]
                         ELSE IF a.v.Kind = ObjectValue
                         THEN [a.v EXCEPT !.Object.index = a.t.structBuffer.Pos,
                                          !.Object.r = TRUE]
                         ELSE a.v
              IN  Returned(r0, [a.t EXCEPT !.anyValueBuffer = buf],
                           [ZeroRes EXCEPT !.any = buf, !.nil = FALSE])])

\* ------------------------------------------------- iterators, SkipValue

RECURSIVE SkipValue(_), ArrayNext(_, _), ObjectNext(_, _), drainArray(_, _),
          drainObject(_, _)

\* The end of a container in lazy-read mode: the descriptor cursor has left
\* the subtree that starts at it.index.
lazyAtEnd(t, it) ==
    t.structBuffer.Pos >= it.index + t.structBuffer.Values[it.index + 1].SubTreeSize

\* Next() that asks the token reader for a comma or the closing bracket in
\* whatever state the iterator is
ArrayNext_again(r, it) ==
    IF ~it.r \/ r.err # NoErr
    THEN [r |-> r, it |-> it, ok |-> FALSE]
    ELSE Let([e \in {EndDelimiterOrComma(r.tr, "]")} |->
         IF e.err # NoErr
         THEN [r |-> AddError([r EXCEPT !.tr = e.t], e.err), it |-> it, ok |-> FALSE]
         ELSE IF e.isEnd
         THEN [r |-> [r EXCEPT !.tr = e.t], it |-> [it EXCEPT !.state = "Done"], ok |-> FALSE]
         ELSE [r |-> [r EXCEPT !.tr = e.t, !.awaitingReadValue = TRUE],
               it |-> [it EXCEPT !.state = "BetweenElements"], ok |-> TRUE]])

\* ArrayState.Next: (more, the iterator after the call, the reader after it)
ArrayNext(r, it) ==
    IF ~it.r \/ it.state = "Done" \/ r.err # NoErr
    THEN [r |-> r, it |-> it, ok |-> FALSE]
    ELSE IF r.tr.options.lazyRead THEN
        IF it.index >= Len(r.tr.structBuffer.Values)
        THEN [r |-> [r EXCEPT !.tr = Panic(r.tr)], it |-> it, ok |-> FALSE]
        ELSE Let([s \in {IF it.state = "BeforeFirst"
                         THEN [r |-> [r EXCEPT !.tr.structBuffer = structNext(@)],
                               res |-> ZeroRes]
                         ELSE IF r.awaitingReadValue THEN SkipValue(r)
                         ELSE [r |-> r, res |-> ZeroRes]} |->
                 IF s.res.err # NoErr
                 THEN [r |-> s.r, it |-> [it EXCEPT !.state = "BetweenElements"], ok |-> FALSE]
                 ELSE IF lazyAtEnd(s.r.tr, it)
                 THEN [r |-> s.r, it |-> [it EXCEPT !.state = "Done"], ok |-> FALSE]
                 ELSE [r |-> [s.r EXCEPT !.awaitingReadValue = TRUE],
                       it |-> [it EXCEPT !.state = "BetweenElements"], ok |-> TRUE]])
    ELSE IF it.state = "BeforeFirst" THEN
        Let([d \in {Delimiter(r.tr, "]")} |->
        LET it1 == [it EXCEPT !.state = "BetweenElements"]
        IN  IF d.err # NoErr
            THEN [r |-> AddError([r EXCEPT !.tr = d.t], d.err), it |-> it1, ok |-> FALSE]
            ELSE IF d.got
            THEN [r |-> [r EXCEPT !.tr = d.t], it |-> [it EXCEPT !.state = "Done"], ok |-> FALSE]
            ELSE [r |-> [r EXCEPT !.tr = d.t, !.awaitingReadValue = TRUE],
                  it |-> it1, ok |-> TRUE]])
    ELSE
        Let([s \in {IF r.awaitingReadValue THEN SkipValue(r) ELSE [r |-> r, res |-> ZeroRes]} |->
        Let([e \in {EndDelimiterOrComma(s.r.tr, "]")} |->
            IF s.res.err # NoErr THEN [r |-> s.r, it |-> it, ok |-> FALSE]
            ELSE IF e.err # NoErr
            THEN [r |-> AddError([s.r EXCEPT !.tr = e.t], e.err), it |-> it, ok |-> FALSE]
            ELSE IF e.isEnd
            THEN [r |-> [s.r EXCEPT !.tr = e.t], it |-> [it EXCEPT !.state = "Done"], ok |-> FALSE]
            ELSE [r |-> [s.r EXCEPT !.tr = e.t, !.awaitingReadValue = TRUE],
                  it |-> it, ok |-> TRUE]])])

\* ObjectState.Next: as ArrayNext, and each member's name is read
\* (PropertyName; in lazy-read mode the descriptor's AssocValue) into it.name
ObjectNext(r, it) ==
    IF ~it.r \/ it.state = "Done" \/ r.err # NoErr
    THEN [r |-> r, it |-> it, ok |-> FALSE]
    ELSE IF r.tr.options.lazyRead THEN
        IF it.index >= Len(r.tr.structBuffer.Values)
        THEN [r |-> [r EXCEPT !.tr = Panic(r.tr)], it |-> it, ok |-> FALSE]
        ELSE Let([s \in {IF it.state = "BeforeFirst"
                         THEN [r |-> [r EXCEPT !.tr.structBuffer = structNext(@)],
                               res |-> ZeroRes]
                         ELSE IF r.awaitingReadValue THEN SkipValue(r)
                         ELSE [r |-> r, res |-> ZeroRes]} |->
             Let([cur \in {CurrentStruct(s.r.tr.structBuffer)} |->
                 IF s.res.err # NoErr
                 THEN [r |-> s.r, it |-> [it EXCEPT !.state = "BetweenElements"], ok |-> FALSE]
                 ELSE IF lazyAtEnd(s.r.tr, it) \/ ~cur.ok
                 THEN [r |-> s.r, it |-> [it EXCEPT !.state = "Done", !.name = <<>>],
                       ok |-> FALSE]
                 ELSE [r |-> [s.r EXCEPT !.awaitingReadValue = TRUE],
                       it |-> [it EXCEPT !.state = "BetweenElements",
                                         !.name = cur.s.AssocValue],
                       ok |-> TRUE]])])
    ELSE
        LET first == it.state = "BeforeFirst"
            it1 == [it EXCEPT !.state = "BetweenElements"]
        IN  Let([s \in {IF ~first /\ r.awaitingReadValue THEN SkipValue(r)
                        ELSE [r |-> r, res |-> ZeroRes]} |->
        Let([e \in {IF first
                    THEN Let([d \in {Delimiter(s.r.tr, "}")} |->
                             [t |-> d.t, isEnd |-> d.got, err |-> d.err]])
                    ELSE EndDelimiterOrComma(s.r.tr, "}")} |->
        Let([p \in {PropertyName(e.t)} |->
            IF s.res.err # NoErr THEN [r |-> s.r, it |-> it1, ok |-> FALSE]
            ELSE IF e.err # NoErr
            THEN [r |-> AddError([s.r EXCEPT !.tr = e.t], e.err), it |-> it1, ok |-> FALSE]
            ELSE IF e.isEnd
            THEN [r |-> [s.r EXCEPT !.tr = e.t],
                  it |-> [it EXCEPT !.state = "Done", !.name = <<>>], ok |-> FALSE]
            ELSE IF p.err # NoErr
            THEN [r |-> AddError([s.r EXCEPT !.tr = p.t], p.err), it |-> it1, ok |-> FALSE]
            ELSE [r |-> [s.r EXCEPT !.tr = p.t, !.awaitingReadValue = TRUE],
                  it |-> [it1 EXCEPT !.name = p.name], ok |-> TRUE]])])])

\* for arr.Next() { }
drainArray(r, it) ==
    Let([n \in {ArrayNext(r, it)} |->
    IF n.ok /\ ~n.r.tr.panicked THEN drainArray(n.r, n.it) ELSE n.r])

\* for obj.Next() { }
drainObject(r, it) ==
    Let([n \in {ObjectNext(r, it)} |->
    IF n.ok /\ ~n.r.tr.panicked THEN drainObject(n.r, n.it) ELSE n.r])

\* SkipValue that reads the value's first token only
SkipValue_shallow(r) ==
    IF r.tr.options.lazyRead THEN
        Let([k \in {SkipSubTree(r.tr.structBuffer)} |->
        IF k.ok THEN [r |-> [r EXCEPT !.tr.structBuffer = k.sb], res |-> ZeroRes]
        ELSE [r |-> r, res |-> [ZeroRes EXCEPT !.err = Errorf("subtree can't be skipped")]]])
    ELSE
        LET r0 == NotAwaiting(r)
        IN  Let([a \in {Any(r0)} |->
            IF r.err # NoErr THEN [r |-> r0, res |-> [ZeroRes EXCEPT !.err = r.err]]
            ELSE IF a.res.nil
            THEN [r |-> [a.r EXCEPT !.tr = Panic(a.r.tr)],
                  res |-> [ZeroRes EXCEPT !.err = PanicError]]
            ELSE [r |-> a.r, res |-> [ZeroRes EXCEPT !.err = a.r.err]]])

\* Reader.SkipValue: res.err is the returned error. The streaming branch
\* uses the result of Any without a nil check: on nil it panics.
SkipValue(r) ==
    IF r.tr.options.lazyRead THEN
        Let([k \in {SkipSubTree(r.tr.structBuffer)} |->
        IF k.ok THEN [r |-> [r EXCEPT !.tr.structBuffer = k.sb], res |-> ZeroRes]
        ELSE [r |-> r, res |-> [ZeroRes EXCEPT !.err = Errorf("subtree can't be skipped")]]])
    ELSE
        LET r0 == NotAwaiting(r)
        IN  Let([a \in {Any(r0)} |->
            IF r.err # NoErr THEN [r |-> r0, res |-> [ZeroRes EXCEPT !.err = r.err]]
            ELSE IF a.res.nil
            THEN [r |-> [a.r EXCEPT !.tr = Panic(a.r.tr)],
                  res |-> [ZeroRes EXCEPT !.err = PanicError]]
            ELSE Let([r1 \in {IF a.res.any.Kind = ArrayValue
                              THEN drainArray(a.r, a.res.any.Array)
                              ELSE IF a.res.any.Kind = ObjectValue
                              THEN drainObject(a.r, a.res.any.Object)
                              ELSE a.r} |->
                     [r |-> r1,
                      res |-> [ZeroRes EXCEPT !.err = IF r1.tr.panicked THEN PanicError
                                                      ELSE r1.err]]])])

\* ------------------------------------------------------- two-pass reading

RECURSIVE preProcess(_), preProcessObject(_, _, _), preProcessArray(_, _, _)

\* The table as it is, the size of the child not added to its parent's
addSubTree_none(tree, pos, nextPos) == tree

\* tree[pos].SubTreeSize += tree[nextPos].SubTreeSize
addSubTree(tree, pos, nextPos) ==
    [tree EXCEPT ![pos + 1].SubTreeSize = @ + tree[nextPos + 1].SubTreeSize]

\* preProcess, case ObjectValue: for kv := value.Object; kv.Next(); { ... }
preProcessObject(r, kv, pos) ==
    Let([n \in {ObjectNext(r, kv)} |->
    IF ~n.ok \/ n.r.tr.panicked THEN n.r
    ELSE LET nextPos == Len(n.r.tr.structBuffer.Values)
         IN  Let([c \in {preProcess(n.r)} |->
         LET tree == c.tr.structBuffer.Values
         IN  IF c.tr.panicked THEN c
             ELSE IF Len(tree) > nextPos
             THEN preProcessObject(
                      [c EXCEPT !.tr.structBuffer.Values =
                           [addSubTree(tree, pos, nextPos)
                               EXCEPT ![nextPos + 1].AssocValue = n.it.name]],
                      n.it, pos)
             ELSE preProcessObject(c, n.it, pos)])])

\* preProcess, case ArrayValue: for v := value.Array; v.Next(); { ... }
preProcessArray(r, v, pos) ==
    Let([n \in {ArrayNext(r, v)} |->
    IF ~n.ok \/ n.r.tr.panicked THEN n.r
    ELSE LET nextPos == Len(n.r.tr.structBuffer.Values)
         IN  Let([c \in {preProcess(n.r)} |->
         LET tree == c.tr.structBuffer.Values
         IN  IF c.tr.panicked THEN c
             ELSE IF Len(tree) > nextPos
             THEN preProcessArray(
                      [c EXCEPT !.tr.structBuffer.Values = addSubTree(tree, pos, nextPos)],
                      n.it, pos)
             ELSE preProcessArray(c, n.it, pos)])])

\* Reader.preProcess: the reader after the walk of one value
preProcess(r) ==
    Let([a \in {Any(r)} |->
    IF a.r.tr.panicked THEN a.r
    ELSE IF a.res.nil THEN [a.r EXCEPT !.err = Errorf("can't parse value")]
    ELSE
        LET value == a.res.any
            pos == Len(a.r.tr.structBuffer.Values)
            d0 == JsonTreeStruct(a.r.tr.lastPos)
            d == IF value.Kind = NumberValue /\ a.r.tr.options.computeNumber
                 THEN [d0 EXCEPT !.ComputedValueType = "NumberComputed",
                                 !.ComputedValueIndex =
                                     Len(a.r.tr.computedValuesBuffer.NumberValues) - 1]
                 ELSE IF value.Kind = StringValue /\ a.r.tr.options.computeString
                 THEN [d0 EXCEPT !.ComputedValueType = "StringComputed",
                                 !.ComputedValueIndex =
                                     Len(a.r.tr.computedValuesBuffer.StringValues) - 1]
                 ELSE d0
            r1 == [a.r EXCEPT !.tr.structBuffer.Values = Append(@, d)]
        IN  Let([r2 \in {IF value.Kind = ObjectValue THEN preProcessObject(r1, value.Object, pos)
                         ELSE IF value.Kind = ArrayValue THEN preProcessArray(r1, value.Array, pos)
                         ELSE r1} |->
            IF r2.tr.panicked THEN r2
            ELSE [r2 EXCEPT !.tr.structBuffer.Values[pos + 1].End = r2.tr.pos]])])

\* PreProcess that runs the walk on the reader itself
PreProcess_inplace(r) ==
    IF "structBuffer" \in r.tr.nilBuffers \/ "charBuffer" \in r.tr.nilBuffers THEN r
    ELSE
        Let([w \in {preProcess([r EXCEPT !.tr.options.lazyParse = TRUE,
                                         !.tr.options.lazyRead = FALSE,
                                         !.tr.structBuffer.Values = <<>>,
                                         !.tr.charBuffer = <<>>,
                                         !.tr.computedValuesBuffer.StringValues = <<>>,
                                         !.tr.computedValuesBuffer.NumberValues = <<>>])} |->
            [w EXCEPT !.tr.structBuffer.Pos = 0,
                      !.tr.options.lazyRead = TRUE,
                      !.tr.options.lazyParse = FALSE]])

\* Reader.PreProcess. The walk runs on cr, a copy of the reader taken at
\* line 623: the buffers behind pointers are shared with r, every other
\* field the walk changes (pos, lastPos, the pushed-back token, the buffers
\* of Any and next, err, awaitingReadValue) is changed in the copy only.
PreProcess(r) ==
    IF "structBuffer" \in r.tr.nilBuffers \/ "charBuffer" \in r.tr.nilBuffers THEN r
    ELSE
        LET cr == [r EXCEPT !.tr.options.lazyParse = TRUE,
                            !.tr.options.lazyRead = FALSE,
                            !.tr.structBuffer.Values = <<>>,
                            !.tr.charBuffer = <<>>,
                            !.tr.computedValuesBuffer.StringValues = <<>>,
                            !.tr.computedValuesBuffer.NumberValues = <<>>]
        IN  Let([w \in {preProcess(cr)} |->
            [r EXCEPT !.tr.structBuffer = [Pos |-> 0, Values |-> w.tr.structBuffer.Values],
                      !.tr.charBuffer = w.tr.charBuffer,
                      !.tr.computedValuesBuffer = w.tr.computedValuesBuffer,
                      !.tr.options.lazyRead = TRUE,
                      !.tr.options.lazyParse = FALSE,
                      !.tr.panicked = w.tr.panicked]])

\* SyncWithPreProcess that leaves pos where the streaming read stopped
SyncWithPreProcess_stay(r) ==
    IF "structBuffer" \in r.tr.nilBuffers THEN r
    ELSE IF r.tr.options.lazyRead THEN [r EXCEPT !.tr.options.lazyRead = FALSE]
    ELSE r

\* Reader.SyncWithPreProcess
SyncWithPreProcess(r) ==
    IF "structBuffer" \in r.tr.nilBuffers THEN r
    ELSE IF r.tr.options.lazyRead
    THEN IF Len(r.tr.structBuffer.Values) # 0
         THEN [r EXCEPT !.tr.options.lazyRead = FALSE,
                        !.tr.pos = r.tr.structBuffer.Values[1].End]
         ELSE [r EXCEPT !.tr.options.lazyRead = FALSE]
    ELSE r

\* ------------------------------------------- the tests' trees and walks

JsonString(s) == [t |-> "string", s |-> s]
JsonNumber(raw) == [t |-> "number", raw |-> raw]
JsonBool(b) == [t |-> "bool", b |-> b]
JsonNull == [t |-> "null"]
JsonArray(items) == [t |-> "array", items |-> items]
JsonPair(k, v) == [k |-> k, v |-> v]
JsonObject(pairs) == [t |-> "object", pairs |-> pairs]

RECURSIVE JsonToString(_), joinArray(_, _), joinObject(_, _)

joinArray(items, i) ==
    IF i > Len(items) THEN <<>>
    ELSE (IF i # 1 THEN <<",">> ELSE <<>>) \o JsonToString(items[i])
         \o joinArray(items, i + 1)

joinObject(pairs, i) ==
    IF i > Len(pairs) THEN <<>>
    ELSE (IF i # 1 THEN <<",">> ELSE <<>>)
         \o <<"\"">> \o pairs[i].k \o <<"\"", ":", " ">> \o JsonToString(pairs[i].v)
         \o joinObject(pairs, i + 1)

JsonToString(j) ==
    IF j.t = "string" THEN j.s
    ELSE IF j.t = "number" THEN j.raw
    ELSE IF j.t = "bool" THEN (IF j.b THEN <<"t", "r", "u", "e">>
                               ELSE <<"f", "a", "l", "s", "e">>)
    ELSE IF j.t = "null" THEN <<"n", "u", "l", "l">>
    ELSE IF j.t = "array" THEN <<"[">> \o joinArray(j.items, 1) \o <<"]">>
    ELSE <<"{">> \o joinObject(j.pairs, 1) \o <<"}">>

RECURSIVE Build(_), buildObject(_, _, _), buildArray(_, _, _),
          BuildWithPartialDestruct(_), partialObject(_, _, _), partialArray(_, _, _)

\* The scalar cases of Build and BuildWithPartialDestruct
buildScalar(value) ==
    IF value.Kind = NumberValue THEN JsonNumber(value.Number.raw)
    ELSE IF value.Kind = StringValue THEN JsonString(<<"\"">> \o value.String \o <<"\"">>)
    ELSE IF value.Kind = BoolValue THEN JsonBool(value.Bool)
    ELSE JsonNull

\* Build, case ObjectValue
buildObject(r, kv, jo) ==
    Let([n \in {ObjectNext(r, kv)} |->
    IF ~n.ok \/ n.r.tr.panicked THEN [r |-> n.r, v |-> JsonObject(jo)]
    ELSE Let([b \in {Build(n.r)} |->
         IF b.r.tr.panicked THEN [r |-> b.r, v |-> JsonObject(jo)]
         ELSE buildObject(b.r, n.it, Append(jo, JsonPair(n.it.name, b.v)))])])

\* Build, case ArrayValue
buildArray(r, v, ja) ==
    Let([n \in {ArrayNext(r, v)} |->
    IF ~n.ok \/ n.r.tr.panicked THEN [r |-> n.r, v |-> JsonArray(ja)]
    ELSE Let([b \in {Build(n.r)} |->
         IF b.r.tr.panicked THEN [r |-> b.r, v |-> JsonArray(ja)]
         ELSE buildArray(b.r, n.it, Append(ja, b.v))])])

\* Build: the tree read from r, and the reader after the walk. The value
\* Any returns is used without a nil check.
Build(r) ==
    Let([a \in {Any(r)} |->
    IF a.r.tr.panicked THEN [r |-> a.r, v |-> JsonNull]
    ELSE IF a.res.nil THEN [r |-> [a.r EXCEPT !.tr = Panic(@)], v |-> JsonNull]
    ELSE IF a.res.any.Kind = ObjectValue THEN buildObject(a.r, a.res.any.Object, <<>>)
    ELSE IF a.res.any.Kind = ArrayValue THEN buildArray(a.r, a.res.any.Array, <<>>)
    ELSE [r |-> a.r, v |-> buildScalar(a.res.any)]])

\* BuildWithPartialDestruct, case ObjectValue
partialObject(r, kv, jo) ==
    Let([n \in {ObjectNext(r, kv)} |->
    IF ~n.ok \/ n.r.tr.panicked THEN [r |-> n.r, v |-> JsonObject(jo)]
    ELSE LET isPreProcessed == IsPreProcessed(n.r)
         IN  Let([r1 \in {IF ~isPreProcessed THEN PreProcess(n.r) ELSE n.r} |->
         Let([b \in {IF r1.tr.panicked THEN [r |-> r1, v |-> JsonNull]
                     ELSE BuildWithPartialDestruct(r1)} |->
         Let([r2 \in {IF ~isPreProcessed THEN SyncWithPreProcess(b.r) ELSE b.r} |->
             IF b.r.tr.panicked THEN [r |-> b.r, v |-> JsonObject(jo)]
             ELSE partialObject(r2, n.it, Append(jo, JsonPair(n.it.name, b.v)))])])])])

\* BuildWithPartialDestruct, case ArrayValue
partialArray(r, v, ja) ==
    Let([n \in {ArrayNext(r, v)} |->
    IF ~n.ok \/ n.r.tr.panicked THEN [r |-> n.r, v |-> JsonArray(ja)]
    ELSE Let([b \in {BuildWithPartialDestruct(n.r)} |->
         IF b.r.tr.panicked THEN [r |-> b.r, v |-> JsonArray(ja)]
         ELSE partialArray(b.r, n.it, Append(ja, b.v))])])

BuildWithPartialDestruct(r) ==
    Let([a \in {Any(r)} |->
    IF a.r.tr.panicked THEN [r |-> a.r, v |-> JsonNull]
    ELSE IF a.res.nil THEN [r |-> [a.r EXCEPT !.tr = Panic(@)], v |-> JsonNull]
    ELSE IF a.res.any.Kind = ObjectValue THEN partialObject(a.r, a.res.any.Object, <<>>)
    ELSE IF a.res.any.Kind = ArrayValue THEN partialArray(a.r, a.res.any.Array, <<>>)
    ELSE [r |-> a.r, v |-> buildScalar(a.res.any)]])

\* value.Array.Next() through the pointer Any returned: the iterator is the
\* one inside the reader's anyValueBuffer, and Next changes it in place
nextInPlace(kind, r) ==
    Let([n \in {IF kind = ArrayValue THEN ArrayNext(r, r.tr.anyValueBuffer.Array)
                ELSE ObjectNext(r, r.tr.anyValueBuffer.Object)} |->
    LET here == IF kind = ArrayValue THEN n.r.tr.anyValueBuffer.Array
                ELSE n.r.tr.anyValueBuffer.Object
        it == [here EXCEPT !.state = n.it.state, !.name = n.it.name]
    IN  [r |-> IF kind = ArrayValue THEN [n.r EXCEPT !.tr.anyValueBuffer.Array = it]
               ELSE [n.r EXCEPT !.tr.anyValueBuffer.Object = it],
         ok |-> n.ok]])

RECURSIVE countInPlace(_, _, _)

\* n := 0; for value.Array.Next() { n++ }
countInPlace(kind, r, n) ==
    Let([x \in {nextInPlace(kind, r)} |->
    IF x.ok /\ ~x.r.tr.panicked THEN countInPlace(kind, x.r, n + 1)
    ELSE [r |-> x.r, n |-> n]])

\* printValue of ExampleReader_Any, on a reader: the number of elements it
\* prints for an array or an object, 0 for a scalar
printValue(r) ==
    Let([a \in {Any(r)} |->
    IF a.r.tr.panicked THEN [r |-> a.r, n |-> 0]
    ELSE IF a.res.nil THEN [r |-> [a.r EXCEPT !.tr = Panic(@)], n |-> 0]
    ELSE IF a.res.any.Kind \in {ArrayValue, ObjectValue}
    THEN countInPlace(a.res.any.Kind, a.r, 0)
    ELSE [r |-> a.r, n |-> 0]])

\* ------------------------------------------------------------- the inputs

\* <<>> \o "..." is not available for strings: documents are tuples of bytes.
NoTree == [t |-> "none"]

one == JsonNumber(<<"1">>)
two == JsonNumber(<<"2">>)
ess == JsonString(<<"\"", "s", "\"">>)

\* Valid documents, as the tests build them: a tree and its JsonToString
ValidTrees ==
    << JsonNumber(<<"1", "0", "0">>),
       JsonBool(TRUE),
       JsonNull,
       ess,
       JsonArray(<<>>),
       JsonObject(<<>>),
       JsonArray(<<one, two>>),
       JsonArray(<<JsonBool(TRUE), ess>>),
       JsonObject(<<JsonPair(<<"a">>, one), JsonPair(<<"b">>, two)>>) >>

\* Documents of the tests and examples that are no JsonToString of a tree:
\* 100,"extra"   [bad,1,2]   {"a":1, x: 2, "c":3}   _1_   1_x   _true   1.5
RawDocs ==
    << <<"1", "0", "0", ",", "\"", "e", "x", "t", "r", "a", "\"">>,
       <<"[", "b", "a", "d", ",", "1", ",", "2", "]">>,
       <<"{", "\"", "a", "\"", ":", "1", ",", " ", "x", ":", " ", "2", ",", " ",
         "\"", "c", "\"", ":", "3", "}">>,
       <<" ", "1", " ">>,
       <<"1", " ", "x">>,
       <<" ", "t", "r", "u", "e">>,
       <<"1", ".", "5">> >>

ValidInputs ==
    {[doc |-> JsonToString(ValidTrees[i]), tree |-> ValidTrees[i]] : i \in 1..Len(ValidTrees)}

Inputs == ValidInputs \cup {[doc |-> RawDocs[i], tree |-> NoTree] : i \in 1..Len(RawDocs)}

\* The integer literals of TestInt64WithComputeWithBuffers and its twin: the
\* bounds of int64, their neighbours outside the range, and 1
Int64Literals ==
    { <<"1">>, MaxInt64Digits, <<"-">> \o MinInt64Digits,
      <<"9","2","2","3","3","7","2","0","3","6","8","5","4","7","7","5","8","0","8">>,
      <<"-","9","2","2","3","3","7","2","0","3","6","8","5","4","7","7","5","8","0","9">> }

\* The tests' documents: a literal, bare and between spaces
NumberInputs ==
    {[doc |-> pad \o lit \o pad, tree |-> JsonNumber(lit)] :
        lit \in Int64Literals, pad \in {<<>>, <<" ", " ">>}}

\* The documents of the readings that use the whole interface:
\* null   [1,2]   {"a":1,"b":2}   100,"extra"   [bad,1,2]
CallInputs ==
    {[doc |-> JsonToString(ValidTrees[i]), tree |-> ValidTrees[i]] : i \in {3, 7, 9}}
    \cup {[doc |-> RawDocs[i], tree |-> NoTree] : i \in {1, 2}}

\* The documents a reader is reset to: 100 and [true,"s"]
ResetInputs ==
    {[doc |-> JsonToString(ValidTrees[i]), tree |-> ValidTrees[i]] : i \in {1, 8}}

\* The scalars of the generated documents
Scalars == {one, ess, JsonNull}

\* The name of the i-th member of a generated object
MemberDigits == <<"1", "2", "3", "4", "5", "6", "7", "8", "9">>
Key(i) == <<"k", MemberDigits[i]>>
Members(l) == [i \in 1..Len(l) |-> JsonPair(Key(i), l[i])]

MaxNodes == 3

RECURSIVE ElementsOfSize(_), ListsOfSize(_)

\* The lists of JsonElements that have m nodes together
ListsOfSize(m) ==
    IF m = 0 THEN {<<>>}
    ELSE UNION {{<<e>> \o l : e \in ElementsOfSize(k), l \in ListsOfSize(m - k)} :
                k \in 1..m}

\* The JsonElements of n nodes: scalars, arrays and objects
ElementsOfSize(n) ==
    (IF n = 1 THEN Scalars ELSE {})
    \cup {JsonArray(l) : l \in ListsOfSize(n - 1)}
    \cup {JsonObject(Members(l)) : l \in ListsOfSize(n - 1)}

\* Every tree of at most MaxNodes nodes, and its JsonToString
WalkInputs ==
    {[doc |-> JsonToString(t), tree |-> t] :
        t \in UNION {ElementsOfSize(n) : n \in 1..MaxNodes}}

\* The buffers a BufferConfig leaves nil: NewReader's, and none
Configs == {{"StringValues", "NumberValues"}, {}}

\* The errors a caller adds
errInjected == Errorf("got an error")
errSorry == Errorf("sorry")

\* ---------------------------------------------------------------- the state

\* The caller can hold an iterator for every container of a document
MaxIters == MaxNodes
MaxUnread == 1
MaxCount == 4

VARIABLES
    doc,     \* the input bytes
    tree,    \* the tree doc was printed from, or NoTree
    r,       \* the Reader
    lz,      \* a second Reader on doc, PreProcess()ed at construction
    sync,    \* lz has been given the same reads as r so far
    stack,   \* the iterators the caller holds, innermost last; count is the
             \* number of Next() calls that returned true, bare says that a
             \* Next() was called while an element was unread
    ret,     \* the last call on r and what it returned
    lret,    \* what the same call on lz returned
    phase    \* what has been read so far

vars == <<doc, tree, r, lz, sync, stack, ret, lret, phase>>

ZeroRet == [op |-> "new", res |-> ZeroRes, ok |-> FALSE,
            pre |-> [err |-> NoErr, awaiting |-> FALSE, phase |-> "new", done |-> FALSE]]

\* The reader that stands for lz once lz is no longer run along r
NoReader == NewReader(<<>>)

InitOn(inputs, twin) ==
    \E in \in inputs, cfg \in Configs :
        /\ doc = in.doc
        /\ tree = in.tree
        /\ r = NewReaderWithBuffers(in.doc, cfg)
        /\ lz = IF twin THEN PreProcess(NewReaderWithBuffers(in.doc, cfg)) ELSE NoReader
        /\ sync = twin
        /\ stack = <<>>
        /\ ret = ZeroRet
        /\ lret = ZeroRet
        /\ phase = "fresh"

\* One reader
Init == InitOn(Inputs, FALSE)

\* Two readers on the same input, the second one PreProcess()ed
InitTwin == InitOn(ValidInputs, TRUE)

Alive == ~r.tr.panicked

Pre == [err |-> r.err, awaiting |-> r.awaitingReadValue, phase |-> phase,
        done |-> stack # <<>> /\ stack[Len(stack)].it.state = "Done"]

ScalarOps == {"Null", "Bool", "BoolOrNull", "NumberProps", "NumberPropsOrNull",
              "Number", "NumberOrNull", "UInt64", "UInt64OrNull", "Int64",
              "Int64OrNull", "Float64", "Float64OrNull", "String", "StringOrNull"}
ContainerOps == {"Array", "ArrayOrNull", "Object", "ObjectOrNull"}
TypedReads == ScalarOps \cup ContainerOps \cup {"Any"}

\* What ret.op says of a call: the typed reads that return values are "Read"
RetOp(op) == IF op \in TypedReads \ {"Null"} THEN "Read" ELSE op

Called(op, res, ok) == [op |-> RetOp(op), res |-> res, ok |-> ok, pre |-> Pre]

\* phase after a call: "single" when the first read of the reader read one
\* whole scalar value without an error
NextPhase(op, o) ==
    IF phase \in {"fresh", "pp"} /\ op \in ScalarOps \cup {"Any"}
       /\ o.r.err = NoErr /\ o.res.err = NoErr /\ ~o.r.tr.panicked
       /\ (op = "Any" => o.res.any.Kind \notin {ArrayValue, ObjectValue})
    THEN (IF phase = "fresh" THEN "single" ELSE "single-pp")
    ELSE "other"

\* The iterator a read returned, if it returned one: (kind, iterator)
IterOf(op, res) ==
    IF op \in {"Array", "ArrayOrNull"} THEN [kind |-> "array", it |-> res.iter]
    ELSE IF op \in {"Object", "ObjectOrNull"} THEN [kind |-> "object", it |-> res.iter]
    ELSE IF op = "Any" /\ ~res.nil /\ res.any.Kind = ArrayValue
    THEN [kind |-> "array", it |-> res.any.Array]
    ELSE IF op = "Any" /\ ~res.nil /\ res.any.Kind = ObjectValue
    THEN [kind |-> "object", it |-> res.any.Object]
    ELSE [kind |-> "none", it |-> ZeroIter]

\* The caller keeps the iterator of a container it has opened
Push(op, o, lo) ==
    Let([i \in {IterOf(op, o.res)} |->
    IF i.it.r /\ Len(stack) < MaxIters
    THEN Append(stack, [kind |-> i.kind, it |-> i.it, lit |-> IterOf(op, lo.res).it,
                        count |-> 0, bare |-> FALSE])
    ELSE stack])

\* lz is left behind
Desync ==
    /\ lz' = NoReader
    /\ lret' = ZeroRet
    /\ sync' = FALSE

Unsynced(st) == [i \in 1..Len(st) |-> [st[i] EXCEPT !.lit = ZeroIter]]

\* Inside an iteration the caller reads an element once, after a Next() that
\* returned true; after an error it may go on calling
CanRead == stack = <<>> \/ r.awaitingReadValue \/ r.err # NoErr

\* One typed read, called on r and, while lz is run along, on lz
Read(op, o, lo) ==
    /\ Alive
    /\ CanRead
    /\ r' = o.r
    /\ ret' = Called(op, o.res, FALSE)
    /\ phase' = NextPhase(op, o)
    /\ IF sync /\ ~lz.tr.panicked
       THEN /\ lz' = lo.r
            /\ lret' = [op |-> RetOp(op), res |-> lo.res, ok |-> FALSE,
                        pre |-> [err |-> lz.err, awaiting |-> lz.awaitingReadValue,
                                 phase |-> phase]]
            /\ sync' = TRUE
            /\ stack' = Push(op, o, lo)
       ELSE /\ Desync
            /\ stack' = Unsynced(Push(op, o, o))
    /\ UNCHANGED <<doc, tree>>

\* ------------------------------------------------------------- the actions

DoNull == Read("Null", Null(r), Null(lz))
DoBool == Read("Bool", Bool(r), Bool(lz))
DoBoolOrNull == Read("BoolOrNull", BoolOrNull(r), BoolOrNull(lz))
DoNumberProps == Read("NumberProps", NumberProps(r), NumberProps(lz))
DoNumberPropsOrNull == Read("NumberPropsOrNull", NumberPropsOrNull(r), NumberPropsOrNull(lz))
DoNumber == Read("Number", Number(r), Number(lz))
DoNumberOrNull == Read("NumberOrNull", NumberOrNull(r), NumberOrNull(lz))
DoUInt64 == Read("UInt64", UInt64(r), UInt64(lz))
DoUInt64OrNull == Read("UInt64OrNull", UInt64OrNull(r), UInt64OrNull(lz))
DoInt64 == Read("Int64", Int64(r), Int64(lz))
DoInt64OrNull == Read("Int64OrNull", Int64OrNull(r), Int64OrNull(lz))
DoFloat64 == Read("Float64", Float64(r), Float64(lz))
DoFloat64OrNull == Read("Float64OrNull", Float64OrNull(r), Float64OrNull(lz))
DoString == Read("String", String(r), String(lz))
DoStringOrNull == Read("StringOrNull", StringOrNull(r), StringOrNull(lz))
DoArray == Read("Array", Array(r), Array(lz))
DoArrayOrNull == Read("ArrayOrNull", ArrayOrNull(r), ArrayOrNull(lz))
DoObject == Read("Object", Object(r), Object(lz))
DoObjectOrNull == Read("ObjectOrNull", ObjectOrNull(r), ObjectOrNull(lz))
DoAny == Read("Any", Any(r), Any(lz))
DoSkipValue == Read("SkipValue", SkipValue(r), SkipValue(lz))

\* arr.Next() / obj.Next() on the innermost iterator the caller holds;
\* ret.res.bytes is what Name() returns after the call
IterNext(kind, op, n, ln) ==
    LET top == stack[Len(stack)]
        lzRuns == sync /\ ~lz.tr.panicked
    IN  /\ r' = n.r
        /\ ret' = Called(op, [ZeroRes EXCEPT !.bytes = n.it.name], n.ok)
        /\ phase' = IF n.ok THEN "elem" ELSE "other"
        /\ stack' = [stack EXCEPT ![Len(stack)] =
                        [top EXCEPT !.it = n.it,
                                    !.lit = IF lzRuns THEN ln.it ELSE ZeroIter,
                                    !.count = IF n.ok THEN @ + 1 ELSE @,
                                    !.bare = @ \/ phase = "elem"]]
        /\ IF lzRuns
           THEN /\ lz' = ln.r
                /\ lret' = [op |-> op, res |-> [ZeroRes EXCEPT !.bytes = ln.it.name],
                            ok |-> ln.ok,
                            pre |-> [err |-> lz.err, awaiting |-> lz.awaitingReadValue,
                                     phase |-> phase]]
                /\ sync' = TRUE
           ELSE Desync
        /\ UNCHANGED <<doc, tree>>

DoArrayNext ==
    /\ Alive
    /\ stack # <<>>
    /\ stack[Len(stack)].kind = "array"
    /\ stack[Len(stack)].count < MaxCount
    /\ IterNext("array", "ArrayNext", ArrayNext(r, stack[Len(stack)].it),
                ArrayNext(lz, stack[Len(stack)].lit))

DoObjectNext ==
    /\ Alive
    /\ stack # <<>>
    /\ stack[Len(stack)].kind = "object"
    /\ stack[Len(stack)].count < MaxCount
    /\ IterNext("object", "ObjectNext", ObjectNext(r, stack[Len(stack)].it),
                ObjectNext(lz, stack[Len(stack)].lit))

\* The loop over the innermost iterator ends when Next() returns false
DoPop ==
    /\ Alive
    /\ stack # <<>>
    /\ ret.op \in {"ArrayNext", "ObjectNext"}
    /\ ~ret.ok
    /\ stack' = [i \in 1..(Len(stack) - 1) |->
                    IF i = Len(stack) - 1
                    THEN [stack[i] EXCEPT !.bare = @ \/ stack[Len(stack)].bare]
                    ELSE stack[i]]
    /\ ret' = Called("Pop", ZeroRes, FALSE)
    /\ UNCHANGED <<doc, tree, r, lz, sync, lret, phase>>

\* Calls that are no reads: on r only, and lz is left behind
Call(op, rr, res) ==
    /\ Alive
    /\ r' = rr
    /\ ret' = Called(op, res, FALSE)
    /\ Desync
    /\ stack' = Unsynced(stack)
    /\ UNCHANGED <<doc, tree>>

\* RequireEOF, called outside the loops
DoRequireEOF ==
    /\ stack = <<>>
    /\ r.tr.pos > 0 - MaxUnread
    /\ Call("RequireEOF", RequireEOF(r).r, RequireEOF(r).res)
    /\ phase' = "other"

\* PreProcess, called before the first read
DoPreProcess ==
    /\ phase = "fresh"
    /\ Call("PreProcess", PreProcess(r), ZeroRes)
    /\ phase' = "pp"

\* AddError and ReplaceError are called on both readers; ret.res.err is the
\* error the caller passed
Inject(op, e, rr, ll) ==
    /\ Alive
    /\ r' = rr
    /\ lz' = IF sync THEN ll ELSE lz
    /\ ret' = Called(op, [ZeroRes EXCEPT !.err = e], FALSE)
    /\ phase' = "other"
    /\ UNCHANGED <<doc, tree, sync, stack, lret>>

DoAddError ==
    Inject("AddError", errInjected, AddError(r, errInjected), AddError(lz, errInjected))

\* AddError(nil)
DoAddNil == Inject("AddError", NoErr, AddError(r, NoErr), AddError(lz, NoErr))

\* ReplaceError with an error, and with nil
DoReplaceError ==
    \E e \in {errSorry, NoErr} :
        Inject("ReplaceError", e, ReplaceError(r, e), ReplaceError(lz, e))

\* SyncWithPreProcess, at any point of a reading
DoSyncWithPreProcess ==
    /\ Call("SyncWithPreProcess", SyncWithPreProcess(r), ZeroRes)
    /\ phase' = "other"

\* The calls of a caller that reads, iterates and skips
Reads ==
    \/ DoNull \/ DoBool \/ DoBoolOrNull
    \/ DoNumberProps \/ DoNumberPropsOrNull \/ DoNumber \/ DoNumberOrNull
    \/ DoUInt64 \/ DoUInt64OrNull \/ DoInt64 \/ DoInt64OrNull
    \/ DoFloat64 \/ DoFloat64OrNull
    \/ DoString \/ DoStringOrNull
    \/ DoArray \/ DoArrayOrNull \/ DoObject \/ DoObjectOrNull
    \/ DoAny \/ DoSkipValue
    \/ DoArrayNext \/ DoObjectNext \/ DoPop
    \/ DoAddError

Next ==
    \/ Reads
    \/ DoRequireEOF \/ DoPreProcess

Spec == Init /\ [][Next]_vars

NextTwin == Reads

SpecTwin == InitTwin /\ [][NextTwin]_vars

\* SetNumberRawRead, called as the tests call it
DoSetNumberRawRead ==
    \E readRaw \in BOOLEAN :
        /\ r.tr.options.readRawNumbers # readRaw
        /\ Call("SetNumberRawRead", SetNumberRawRead(r, readRaw), ZeroRes)
        /\ UNCHANGED phase

\* ------------------------------------------------- the whole interface

InitCalls == InitOn(CallInputs, FALSE)

\* A caller that also replaces errors and leaves lazy-read mode
NextCalls ==
    \/ DoNull \/ DoBoolOrNull \/ DoInt64 \/ DoString
    \/ DoArray \/ DoObjectOrNull \/ DoAny \/ DoSkipValue
    \/ DoArrayNext \/ DoObjectNext \/ DoPop
    \/ DoAddError
    \/ DoRequireEOF \/ DoPreProcess
    \/ DoAddNil \/ DoReplaceError
    \/ DoSyncWithPreProcess

SpecCalls == InitCalls /\ [][NextCalls]_vars

\* ----------------------------------------------------- the integer reads

\* One reader on an integer literal
InitNumbers == InitOn(NumberInputs, FALSE)

\* The calls of the Int64 tests, and reads that follow them
NextNumbers ==
    \/ DoSetNumberRawRead
    \/ DoPreProcess
    \/ DoInt64 \/ DoInt64OrNull
    \/ DoNumber \/ DoNull

SpecNumbers == InitNumbers /\ [][NextNumbers]_vars

\* ------------------------------------------------------------- the walks

\* One reader on a generated document
InitWalk == InitOn(WalkInputs, FALSE)

\* The reader stands before a value it has not read: the document's, or the
\* element a Next() has just announced
AtValue == Alive /\ r.err = NoErr /\ phase \in {"fresh", "pp", "elem"}

Size(t) ==
    IF t.t = "array" THEN Len(t.items) ELSE IF t.t = "object" THEN Len(t.pairs) ELSE 0

Elem(t, k) == IF t.t = "array" THEN t.items[k] ELSE t.pairs[k].v

RECURSIVE SubTree(_, _, _), PathOk(_, _, _)

\* The counts of the first n iterators of the caller lead to a value of t
PathOk(t, n, i) ==
    i > n \/ (stack[i].count \in 1..Size(t) /\ PathOk(Elem(t, stack[i].count), n, i + 1))

\* The value they lead to
SubTree(t, n, i) == IF i > n THEN t ELSE SubTree(Elem(t, stack[i].count), n, i + 1)

\* The value the reader stands before (AtValue), or has just read
Here == SubTree(tree, Len(stack), 1)

\* The container the caller's innermost iterator runs over
Container == SubTree(tree, Len(stack) - 1, 1)

\* A routine of the tests and examples, run as a whole from a value position
Walk(op, w, res) ==
    /\ AtValue
    /\ r' = w.r
    /\ ret' = Called(op, res, FALSE)
    /\ phase' = "other"
    /\ Desync
    /\ UNCHANGED <<doc, tree, stack>>

DoBuild == Walk("Build", Build(r), [ZeroRes EXCEPT !.tree = Build(r).v])

\* BuildWithPartialDestruct is given a streaming reader
DoBuildWithPartialDestruct ==
    /\ ~r.tr.options.lazyRead
    /\ Walk("BuildWithPartialDestruct", BuildWithPartialDestruct(r),
            [ZeroRes EXCEPT !.tree = BuildWithPartialDestruct(r).v])

\* printValue makes its reader and reads the document's value
DoPrintValue ==
    /\ phase \in {"fresh", "pp"}
    /\ Walk("printValue", printValue(r), [ZeroRes EXCEPT !.count = printValue(r).n])

\* A caller that walks a document: it reads or skips the value it stands
\* before, or runs a routine on it, and iterates the containers it has opened.
\* In lazy-read mode it leaves the skipping of elements to Next().
NextWalk ==
    \/ DoPreProcess
    \/ AtValue /\ DoAny
    \/ AtValue /\ DoNumber
    \/ AtValue /\ DoString
    \/ AtValue /\ DoArray
    \/ AtValue /\ DoObject
    \/ AtValue /\ (phase = "elem" => ~r.tr.options.lazyRead) /\ DoSkipValue
    \/ DoBuild \/ DoBuildWithPartialDestruct \/ DoPrintValue
    \/ DoArrayNext \/ DoObjectNext \/ DoPop

SpecWalk == InitWalk /\ [][NextWalk]_vars

\* ------------------------------------------------------ a reader reused

\* Reset(data): the caller drops the iterators it holds and reads a second
\* document with the reader
DoReset ==
    \E in \in ResetInputs :
        /\ Alive
        /\ [doc |-> doc, tree |-> tree] \notin ResetInputs
        /\ r' = Reset(r, in.doc)
        /\ doc' = in.doc
        /\ tree' = in.tree
        /\ stack' = <<>>
        /\ ret' = Called("Reset", ZeroRes, FALSE)
        /\ phase' = "fresh"
        /\ Desync

\* A caller that reads documents one after the other with one reader
NextReset ==
    \/ DoInt64 \/ DoBoolOrNull \/ DoArray \/ DoAny
    \/ DoArrayNext \/ DoObjectNext \/ DoPop
    \/ DoPrintValue
    \/ DoAddError
    \/ DoPreProcess
    \/ DoReset

SpecReset == InitCalls /\ [][NextReset]_vars

\* ------------------------------------------------- strings and numbers

\* The strings of the examples and tests: the bytes between the quotes (enc)
\* and the value they stand for (val)
TextStrings ==
    { [enc |-> <<"s">>, val |-> <<"s">>],
      [enc |-> <<>>, val |-> <<>>],
      [enc |-> <<"a", " ", "\\", "\"", "g", "\\", "\"">>,
       val |-> <<"a", " ", "\"", "g", "\"">>],
      [enc |-> <<"\\", "\\">>, val |-> <<"\\">>],
      [enc |-> <<"\\", "n", "a">>, val |-> <<"\n", "a">>],
      [enc |-> <<"\\", "u", "0", "0", "b", "f">>, val |-> <<"U+00bf">>] }

Quoted(enc) == <<"\"">> \o enc \o <<"\"">>

\* "\na" in an array and as a member's value: ["a \"g\"","s"] and
\* {"k1": "\na","k2": "\\"}
TextTrees ==
    {JsonString(Quoted(x.enc)) : x \in TextStrings}
    \cup {JsonArray(<<JsonString(Quoted(<<"a", " ", "\\", "\"", "g", "\\", "\"">>)), ess>>),
          JsonObject(<<JsonPair(Key(1), JsonString(Quoted(<<"\\", "n", "a">>))),
                       JsonPair(Key(2), JsonString(Quoted(<<"\\", "\\">>)))>>)}

\* The number literals, and what TestRawNumberReading puts around a literal
NumberLits == {<<"1">>, <<"-", "1", "2">>, <<"1", ".", "5">>, <<"1", "e", "5">>}

NumberPads ==
    { [pre |-> <<>>, suf |-> <<>>],
      [pre |-> <<" ", " ">>, suf |-> <<" ", " ">>],
      [pre |-> <<" ", " ">>, suf |-> <<",", " ">>],
      [pre |-> <<" ">>, suf |-> <<" ", "}", " ">>],
      [pre |-> <<" ">>, suf |-> <<" ", "]", " ">>] }

\* Numbers inside containers, with whitespace around them:
\* [ 1 ,1.5 ]   {"k1": -12 , "k2":1}
PaddedDocs ==
    { [doc |-> <<"[", " ", "1", " ", ",", "1", ".", "5", " ", "]">>,
       tree |-> JsonArray(<<one, JsonNumber(<<"1", ".", "5">>)>>)],
      [doc |-> <<"{">> \o Quoted(Key(1)) \o <<":", " ", "-", "1", "2", " ", ",", " ">>
               \o Quoted(Key(2)) \o <<":", "1", "}">>,
       tree |-> JsonObject(<<JsonPair(Key(1), JsonNumber(<<"-", "1", "2">>)),
                             JsonPair(Key(2), one)>>)] }

\* The bytes unicode.IsSpace takes for spaces, and two bytes that are none
SpaceBytes == {" ", "\t", "\n", "\r", "0x0B", "\f", "0x85", "0xA0", "_", "+"}

\* A byte before a value, at the start of a document and inside an array
SpaceDocs ==
    {[doc |-> <<b, "1">>, tree |-> NoTree] : b \in SpaceBytes}
    \cup {[doc |-> <<"[", b, "1", "]">>, tree |-> NoTree] : b \in SpaceBytes}

TextInputs ==
    {[doc |-> JsonToString(t), tree |-> t] : t \in TextTrees}
    \cup {[doc |-> p.pre \o lit \o p.suf, tree |-> JsonNumber(lit)] :
            lit \in NumberLits, p \in NumberPads}
    \cup PaddedDocs
    \cup SpaceDocs

\* The buffers left nil by NewReader, by ExampleWithEscapes, and by a
\* caller that gives all four buffers
TextConfigs == {{"StringValues", "NumberValues"}, {"structBuffer", "NumberValues"}, {}}

InitText ==
    \E in \in TextInputs, cfg \in TextConfigs :
        /\ doc = in.doc
        /\ tree = in.tree
        /\ r = NewReaderWithBuffers(in.doc, cfg)
        /\ lz = NoReader
        /\ sync = FALSE
        /\ stack = <<>>
        /\ ret = ZeroRet
        /\ lret = ZeroRet
        /\ phase = "fresh"

\* A caller that reads the strings and numbers of a document, in streaming
\* mode or after PreProcess
NextText ==
    \/ DoPreProcess
    \/ AtValue /\ DoString
    \/ AtValue /\ DoNumber
    \/ AtValue /\ DoAny
    \/ AtValue /\ DoArray
    \/ AtValue /\ DoObject
    \/ DoArrayNext \/ DoObjectNext \/ DoPop

SpecText == InitText /\ [][NextText]_vars

\* ------------------------------------------------- buffers left nil

\* All the BufferConfigs of Fuzz: a bit for each of the four buffers
BufferNames == {"structBuffer", "charBuffer", "StringValues", "NumberValues"}
FuzzConfigs == SUBSET BufferNames

\* The document of TestCrashes, and documents with a number and a string
FuzzTrees ==
    { JsonArray(<<JsonObject(<<>>)>>),
      JsonArray(<<one>>),
      JsonArray(<<ess>>),
      JsonObject(<<JsonPair(<<"a">>, one)>>) }

InitBuffers ==
    \E t \in FuzzTrees, cfg \in FuzzConfigs :
        /\ doc = JsonToString(t)
        /\ tree = t
        /\ r = NewReaderWithBuffers(JsonToString(t), cfg)
        /\ lz = NoReader
        /\ sync = FALSE
        /\ stack = <<>>
        /\ ret = ZeroRet
        /\ lret = ZeroRet
        /\ phase = "fresh"

\* PreProcess, called at any point of a reading
DoPreProcessAnywhere ==
    /\ ~r.tr.options.lazyRead
    /\ Call("PreProcess", PreProcess(r), ZeroRes)
    /\ phase' = "pp"

DoIsPreProcessed ==
    /\ ret.op # "IsPreProcessed"
    /\ Call("IsPreProcessed", r, [ZeroRes EXCEPT !.bool = IsPreProcessed(r)])
    /\ UNCHANGED phase

\* The calls of ParseJson, in any order
NextBuffers ==
    \/ DoIsPreProcessed
    \/ DoPreProcessAnywhere
    \/ DoSyncWithPreProcess
    \/ DoObject \/ DoArray
    \/ DoArrayNext \/ DoObjectNext \/ DoPop
    \/ DoString \/ DoNumberProps

SpecBuffers == InitBuffers /\ [][NextBuffers]_vars

\* ------------------------------------------------- the token reader

\* Documents read token by token: names and strings with escapes, a member
\* without its colon, an array without its comma, input that ends inside a
\* container, a malformed literal and a string without its end
TokenDocs ==
    { <<"[", "1", ",", "\"", "a", "\\", "\"", "b", "\"", "]">>,
      <<"{", "\"", "a", "\\", "\"", "b", "\"", ":", "1", ",", " ", "\"", "c", "\\", "n", "\"",
        ":", "\"", "s", "\"", "}">>,
      <<"{", "\"", "a", "\"", " ", "1", "}">>,
      <<"[", "1", " ", "2", "]">>,
      <<"[", "1">>,
      <<"{", "\"", "a", "\"", ":", "1">>,
      <<"[", "b", "a", "d", "]">>,
      <<"[", "\"", "x">> }

InitTokens ==
    \E d \in TokenDocs, cfg \in TextConfigs :
        /\ doc = d
        /\ tree = NoTree
        /\ r = NewReaderWithBuffers(d, cfg)
        /\ lz = NoReader
        /\ sync = FALSE
        /\ stack = <<>>
        /\ ret = ZeroRet
        /\ lret = ZeroRet
        /\ phase = "fresh"

\* A call of the token reader of r; the caller stops at the first error
TokenCall(op, t, res) ==
    /\ ret.res.err = NoErr
    /\ Call(op, [r EXCEPT !.tr = t], res)
    /\ phase' = "other"

\* The delimiters the readers ask for
Asked == {"[", "{", "]", "}"}

DoDelimiter ==
    \E b \in Asked :
        \E d \in {Delimiter(r.tr, b)} :
            TokenCall("Delimiter", d.t, [ZeroRes EXCEPT !.bool = d.got, !.err = d.err,
                                                        !.bytes = <<b>>])

DoEndDelimiterOrComma ==
    \E b \in {"]", "}"} :
        \E e \in {EndDelimiterOrComma(r.tr, b)} :
            TokenCall("EndDelimiterOrComma", e.t,
                      [ZeroRes EXCEPT !.bool = e.isEnd, !.err = e.err])

DoPropertyName ==
    \E p \in {PropertyName(r.tr)} :
        TokenCall("PropertyName", p.t, [ZeroRes EXCEPT !.bytes = p.name, !.err = p.err])

DoTokenAny ==
    \E a \in {trAny(r.tr)} :
        TokenCall("Any", a.t, [ZeroRes EXCEPT !.nil = a.nil, !.any = a.v, !.err = a.err])

DoTokenNull ==
    \E n \in {trNull(r.tr)} :
        TokenCall("Null", n.t, [ZeroRes EXCEPT !.bool = n.isNull, !.err = n.err])

NextTokens ==
    \/ DoDelimiter
    \/ DoEndDelimiterOrComma
    \/ DoPropertyName
    \/ DoTokenAny
    \/ DoTokenNull

SpecTokens == InitTokens /\ [][NextTokens]_vars

\* ------------------------------------------------- inputs that end early

\* An array with an object in it that holds an array
CutTree == JsonArray(<<one, JsonObject(<<JsonPair(<<"a">>, JsonArray(<<two>>))>>)>>)

\* The document and every prefix of it, the empty one included
CutInputs ==
    {[doc |-> SubSeq(JsonToString(CutTree), 1, k),
      tree |-> IF k = Len(JsonToString(CutTree)) THEN CutTree ELSE NoTree] :
        k \in 0..Len(JsonToString(CutTree))}

InitCut == InitOn(CutInputs, FALSE)

\* A caller that opens containers, iterates, skips and pre-processes
NextCut ==
    \/ DoArray \/ DoObject \/ DoAny \/ DoSkipValue
    \/ DoArrayNext \/ DoObjectNext \/ DoPop
    \/ DoPreProcess

SpecCut == InitCut /\ [][NextCut]_vars

\* ------------------------------------------------------------- the claims

\* The last call was a typed read
WasTypedRead == ret.op \in {"Read", "Null"}

\* C1 as stated: once the error latch is set, every typed read, Null among
\* them, returns its zero value (for Null a nil error) and Error() is
\* unchanged.
C1_ZeroAfterLatch ==
    (WasTypedRead /\ ret.pre.err # NoErr)
        => (ret.res = ZeroRes /\ Error(r) = ret.pre.err)

\* C1, amended: once the error latch is set, every typed read other than
\* Null returns its zero value, Null returns the latched error, and Error()
\* is unchanged.
C1_LatchedReads ==
    (WasTypedRead /\ ret.pre.err # NoErr)
        => /\ Error(r) = ret.pre.err
           /\ ret.op = "Read" => ret.res = ZeroRes
           /\ ret.op = "Null" => ret.res = [ZeroRes EXCEPT !.err = ret.pre.err]

\* A typed read was called on a reader that a failed read had latched
C1_Witness ==
    /\ ret.op = "Read"
    /\ ret.pre.err.kind = "TypeError"
    /\ ret.res = ZeroRes

\* C2: a typed read that meets an error leaves the reader failed with that
\* error: the error Null() returns is the error Error() returns after it.
C2_NullLatches ==
    (WasTypedRead /\ ret.pre.err = NoErr /\ ret.res.err # NoErr)
        => Error(r) = ret.res.err

\* What a caller sees of a result: the values, not the iterators' cursors
Seen(res) ==
    [bool |-> res.bool, bytes |-> res.bytes, num |-> res.num, int |-> res.int,
     float |-> res.float, nonNull |-> res.nonNull, nil |-> res.nil, err |-> res.err,
     kind |-> res.any.Kind, anyBool |-> res.any.Bool, anyNumber |-> res.any.Number,
     anyString |-> res.any.String,
     defined |-> res.iter.r \/ res.any.Array.r \/ res.any.Object.r]

\* C3: on a valid document, the reads and Next() calls of a reader that was
\* PreProcess()ed first return the same values and leave the same error
\* (kind, expected and actual type, nullable flag, offset) as the same calls
\* on a streaming reader.
C3_LazyEqualsStreaming ==
    (sync /\ ret.op \in {"Read", "Null", "ArrayNext", "ObjectNext"})
        => /\ Seen(lret.res) = Seen(ret.res)
           /\ lret.ok = ret.ok
           /\ Error(lz) = Error(r)

\* Two readers are at the same place of the input: byte offset, pending
\* token, descriptor cursor, and the same error
SamePlace(a, b) ==
    /\ a.tr.pos = b.tr.pos
    /\ a.tr.hasUnread = b.tr.hasUnread
    /\ a.tr.hasUnread => a.tr.unreadToken = b.tr.unreadToken
    /\ a.tr.structBuffer.Pos = b.tr.structBuffer.Pos
    /\ a.tr.panicked = b.tr.panicked
    /\ a.err = b.err

\* C4: from every value position of a valid document read in streaming mode,
\* BuildWithPartialDestruct, which reads each object member's value in
\* lazy-read mode between PreProcess and SyncWithPreProcess, returns the
\* tree of the value without an error and leaves the reader where the
\* streaming walk Build leaves it.
C4_PartialDestruct ==
    (AtValue /\ ~r.tr.options.lazyRead /\ PathOk(tree, Len(stack), 1))
        => Let([b \in {BuildWithPartialDestruct(r)} |->
           /\ b.v = Here
           /\ b.r.err = NoErr
           /\ ~b.r.tr.panicked
           /\ ~b.r.tr.options.lazyRead
           /\ b.r.tr.pos = Build(r).r.tr.pos
           /\ b.r.tr.hasUnread = Build(r).r.tr.hasUnread])

\* The walk has rebuilt an object that has an object among its members
C4_Witness ==
    /\ ret.op = "BuildWithPartialDestruct"
    /\ r.err = NoErr
    /\ ret.res.tree.t = "object"
    /\ \E i \in 1..Len(ret.res.tree.pairs) :
          /\ ret.res.tree.pairs[i].v.t = "object"
          /\ Len(ret.res.tree.pairs[i].v.pairs) > 0
    /\ ret.res.tree = Here

\* The calls of Next()
IterOps == {"ArrayNext", "ObjectNext"}

\* A string value without its quotes
Unquoted(str) == SubSeq(str, 2, Len(str) - 1)

\* A read has opened a container
Opened(res) == res.iter.r \/ (~res.nil /\ res.any.Kind \in {ArrayValue, ObjectValue})

\* A read that opened no container has returned the scalar v
Returns(res, v) ==
    IF v.t = "number"
    THEN res.bytes = v.raw
         \/ (~res.nil /\ res.any.Kind = NumberValue /\ res.any.Number.raw = v.raw)
    ELSE IF v.t = "string"
    THEN res.bytes = Unquoted(v.s)
         \/ (~res.nil /\ res.any.Kind = StringValue /\ res.any.String = Unquoted(v.s))
    ELSE IF v.t = "bool"
    THEN ~res.nil /\ res.any.Kind = BoolValue /\ res.any.Bool = v.b
    ELSE IF v.t = "null"
    THEN ~res.nil /\ res.any.Kind = NullValue
    ELSE FALSE

\* The reader has consumed the whole document
AtEnd ==
    IF r.tr.options.lazyRead
    THEN r.tr.structBuffer.Pos = Len(r.tr.structBuffer.Values)
    ELSE r.tr.pos = Len(doc) /\ ~r.tr.hasUnread

\* The caller has read the element of every Next() that returned true before
\* it called Next() again
EveryElementRead == \A i \in 1..Len(stack) : ~stack[i].bare

\* What a Next() call on the innermost iterator has to say of the container
\* of n elements it runs over: at most n calls have returned true, the k-th
\* of them with the k-th member's name; the call that returns false is the
\* one after the n-th and it consumes the closing delimiter
NextInOrder ==
    LET top == stack[Len(stack)] IN
    /\ PathOk(tree, Len(stack) - 1, 1)
    /\ Container.t = top.kind
    /\ top.count <= Size(Container)
    /\ (ret.op \in IterOps /\ ret.ok)
          => /\ top.count >= 1
             /\ phase = "elem"
             /\ top.kind = "object" => ret.res.bytes = Container.pairs[top.count].k
    /\ (ret.op \in IterOps /\ ~ret.ok)
          => /\ top.count = Size(Container)
             /\ Len(stack) = 1 => AtEnd

\* C5: while a caller iterates the containers of a valid document with
\* Next() and one typed read per element and no error is latched, Next() has
\* returned true at most n times on a container of n elements and returns
\* false, consuming the closing delimiter, after the n-th element; the read
\* after the k-th true returns the k-th element and Name() is the k-th name.
C5_IterationInOrder ==
    (Alive /\ r.err = NoErr /\ stack # <<>> /\ EveryElementRead)
        => /\ NextInOrder
           /\ (ret.op = "Read" /\ ret.pre.phase = "elem" /\ ~Opened(ret.res))
                 => Returns(ret.res, Here)
           /\ (ret.op = "Read" /\ Opened(ret.res))
                 => stack[Len(stack)].count = 0

\* The Next() after the read of the second member of an object of two
\* members has returned false
C5_Witness ==
    /\ ret.op = "ObjectNext"
    /\ ~ret.ok
    /\ r.err = NoErr
    /\ ret.pre.phase = "other"
    /\ ~ret.pre.awaiting
    /\ EveryElementRead
    /\ Len(stack) = 1
    /\ stack[1].count = 2
    /\ tree.t = "object"
    /\ AtEnd

\* C6: a Next() called while the element of the previous Next() is unread
\* skips that whole element and reads the comma or closing delimiter without
\* an error, and the loop of ExampleReader_Any, for value.Array.Next() { n++ },
\* counts the elements of the document's array or object and leaves the
\* reader where a full walk of the document leaves it.
C6_NextSkipsUnread ==
    /\ (ret.op \in IterOps /\ ret.pre.phase = "elem" /\ ret.pre.err = NoErr /\ Alive)
          => (r.err = NoErr /\ NextInOrder)
    /\ (AtValue /\ phase \in {"fresh", "pp"})
          => Let([p \in {printValue(r)} |->
             /\ p.n = Size(tree)
             /\ ~p.r.tr.panicked
             /\ p.r.err = NoErr
             /\ SamePlace(p.r, Build(r).r)])

\* C7: once an error is latched, every step of the caller keeps Error() as
\* it is, every Next() returns false and leaves the caller's iterators and
\* their counts of elements as they were, and every read that returns a
\* value returns its zero value.
C7_LatchStopsIteration ==
    [][(r.err # NoErr /\ Alive)
          => /\ Error(r') = Error(r)
             /\ ret'.op \in IterOps => (~ret'.ok /\ stack' = stack)
             /\ ret'.op = "Read" => (ret'.res = ZeroRes /\ stack' = stack)]_vars

\* Next() has returned false on an array because of the error AddError
\* latched after Next() had returned true
C7_Witness ==
    /\ ret.op = "ArrayNext"
    /\ ~ret.ok
    /\ ret.pre.err = errInjected
    /\ r.err = errInjected
    /\ stack[Len(stack)].count >= 1

BadArrayDoc == RawDocs[2]
BadObjectDoc == RawDocs[3]

\* C8: on a reader in streaming mode, every Next() on [bad,1,2] returns
\* false, and on {"a":1, x: 2, "c":3} every Next() after the first: the one
\* that meets the malformed item latches an error; after it every Next()
\* returns false and every read that returns a value returns its zero value.
C8_MalformedItemStops ==
    (doc \in {BadArrayDoc, BadObjectDoc} /\ Alive /\ ~r.tr.options.lazyRead)
        => /\ (ret.op \in IterOps /\ ret.ok)
                 => /\ doc = BadObjectDoc
                    /\ stack[Len(stack)].count = 1
                    /\ ret.res.bytes = <<"a">>
           /\ (ret.op \in IterOps /\ ~ret.ok) => r.err # NoErr
           /\ (ret.op = "Read" /\ ret.pre.err # NoErr) => ret.res = ZeroRes

\* The second Next() on the object has met the malformed member
C8_Witness ==
    /\ doc = BadObjectDoc
    /\ ret.op = "ObjectNext"
    /\ ~ret.ok
    /\ ret.pre.err = NoErr
    /\ r.err.kind = "SyntaxError"
    /\ stack[Len(stack)].count = 1

\* C9: at every value position of a valid document SkipValue returns a nil
\* error and leaves the reader at the byte offset, with the pending token
\* and at the descriptor a full walk of the value by Any() and Next() leaves
\* it at.
C9_SkipValueAsTraversal ==
    AtValue => /\ SkipValue(r).res.err = NoErr
               /\ SamePlace(SkipValue(r).r, Build(r).r)

\* SkipValue has skipped an element that is a container with elements
C9_Witness ==
    /\ ret.op = "SkipValue"
    /\ ret.pre.phase = "elem"
    /\ r.err = NoErr
    /\ PathOk(tree, Len(stack), 1)
    /\ Size(Here) > 0
    /\ ~r.tr.options.lazyRead

\* JSON whitespace
IsJsonSpace(ch) == ch \in {" ", "\t", "\n", "\r"}

\* The first index from i on (1-based) whose byte satisfies stop, or
\* Len(d) + 1
FirstFrom(d, i, stop(_)) ==
    Min({j \in i..Len(d) : stop(d[j])} \cup {Len(d) + 1})

NotJsonSpace(ch) == ~IsJsonSpace(ch)
IsQuote(ch) == ch = "\""
EndsLiteral(ch) == IsJsonSpace(ch) \/ ch \in Delims

\* The index of the first byte after the first scalar of d that is no
\* whitespace, or Len(d) + 1: strings have no escapes in the inputs
TrailingData(d) ==
    LET start == FirstFrom(d, 1, NotJsonSpace)
        end == IF d[start] = "\"" THEN FirstFrom(d, start + 1, IsQuote) + 1
               ELSE FirstFrom(d, start, EndsLiteral)
    IN  FirstFrom(d, end, NotJsonSpace)

\* C10: after the first read of a reader has read a single scalar value,
\* in streaming mode or in lazy-read mode after PreProcess, RequireEOF
\* returns nil if only whitespace follows the value and else the syntax
\* error "unexpected data after end of JSON value" with the offset of the
\* first byte after the value that is no whitespace.
C10_RequireEOF ==
    (ret.op = "RequireEOF" /\ ret.pre.phase \in {"single", "single-pp"})
        => ret.res.err = IF TrailingData(doc) > Len(doc) THEN NoErr
                         ELSE SyntaxError(errMsgDataAfterEnd, <<>>, TrailingData(doc) - 1)

\* The scalar reads X() that have an XOrNull() form, and the kind they require
PairedReads == {"Bool", "NumberProps", "Number", "UInt64", "Int64", "Float64", "String"}

KindOfRead(op) ==
    IF op = "Bool" THEN BoolValue ELSE IF op = "String" THEN StringValue ELSE NumberValue

\* X() called on rd
Plain(op, rd) ==
    CASE op = "Bool" -> Bool(rd)
      [] op = "NumberProps" -> NumberProps(rd)
      [] op = "Number" -> Number(rd)
      [] op = "UInt64" -> UInt64(rd)
      [] op = "Int64" -> Int64(rd)
      [] op = "Float64" -> Float64(rd)
      [] op = "String" -> String(rd)

\* XOrNull() called on rd
OrNull(op, rd) ==
    CASE op = "Bool" -> BoolOrNull(rd)
      [] op = "NumberProps" -> NumberPropsOrNull(rd)
      [] op = "Number" -> NumberOrNull(rd)
      [] op = "UInt64" -> UInt64OrNull(rd)
      [] op = "Int64" -> Int64OrNull(rd)
      [] op = "Float64" -> Float64OrNull(rd)
      [] op = "String" -> StringOrNull(rd)

\* The reader has not failed and stands before the value of a valid document
AtDocument == Alive /\ r.err = NoErr /\ phase \in {"fresh", "pp"} /\ tree # NoTree

\* The reader has read the whole of a scalar document
PastScalar(rd) ==
    IF rd.tr.options.lazyRead THEN ~HasNext(rd.tr.structBuffer)
    ELSE rd.tr.pos = Len(doc) /\ ~rd.tr.hasUnread

\* C11: on a value of another kind X() latches a TypeError with Expected X,
\* Actual the kind of the value and Nullable false; XOrNull() reads a null as
\* (zero, false) without an error, latches the same TypeError with Nullable
\* true on a value of a third kind, and on a value of kind X returns what X()
\* returns and leaves the reader where X() leaves it. On any input, a syntax
\* error that X() latches is the error that XOrNull() latches.
C11_TypeErrors ==
    \A op \in PairedReads : \A x \in {Plain(op, r)}, n \in {OrNull(op, r)} :
        /\ (AtDocument /\ tree.t # KindOfRead(op))
               => /\ x.r.err.kind = "TypeError"
                  /\ x.r.err.expected = KindOfRead(op)
                  /\ x.r.err.actual = tree.t
                  /\ ~x.r.err.nullable
                  /\ x.res = ZeroRes
        /\ (AtDocument /\ tree.t = NullValue)
               => /\ n.r.err = NoErr
                  /\ n.res = ZeroRes
                  /\ PastScalar(n.r)
        /\ (AtDocument /\ tree.t \notin {NullValue, KindOfRead(op)})
               => /\ n.r.err = [x.r.err EXCEPT !.nullable = TRUE]
                  /\ n.res = ZeroRes
        /\ (AtDocument /\ tree.t = KindOfRead(op))
               => /\ x.r.err = NoErr
                  /\ SamePlace(n.r, x.r)
                  /\ [n.res EXCEPT !.nonNull = FALSE] = x.res
        /\ (Alive /\ r.err = NoErr /\ CanRead
              /\ "SyntaxError" \in {x.r.err.kind, n.r.err.kind})
               => n.r.err = x.r.err

\* BoolOrNull, or another XOrNull, was the first read of a valid document and
\* latched a type error
C11_Witness ==
    /\ ret.op = "Read"
    /\ ret.pre.phase \in {"fresh", "pp"}
    /\ tree # NoTree
    /\ r.err.kind = "TypeError"
    /\ r.err.nullable
    /\ r.err.expected = BoolValue
    /\ r.err.actual = NumberValue

\* ArrayState.IsDefined and ObjectState.IsDefined
IsDefined(it) == it.r

\* Array / ArrayOrNull / Object / ObjectOrNull called on rd
Open(kind, allowNull, rd) ==
    IF kind = ArrayValue THEN tryArray(rd, allowNull) ELSE tryObject(rd, allowNull)

\* Next() of an ArrayState or an ObjectState
NextOf(kind, rd, it) == IF kind = ArrayValue THEN ArrayNext(rd, it) ELSE ObjectNext(rd, it)

\* it is a stub: on the reader rd, failed or not, its Next() returns false
\* and changes neither the reader nor the iterator
Stub(kind, rd, it) ==
    \A q \in {rd, AddError(rd, errInjected)} :
        NextOf(kind, q, it) = [r |-> q, it |-> it, ok |-> FALSE]

\* C12: ArrayOrNull() and ObjectOrNull() read a null without an error and
\* return a stub whose IsDefined() is false; on a container of their kind
\* they, and Array() and Object(), return a state whose IsDefined() is true;
\* Array() and Object() on a value that is not of their kind latch a
\* TypeError with that kind as Expected and return a stub.
C12_ContainerStubs ==
    AtDocument =>
        \A kind \in {ArrayValue, ObjectValue} :
        \A x \in {Open(kind, FALSE, r)}, n \in {Open(kind, TRUE, r)} :
            /\ tree.t = NullValue
                   => /\ n.r.err = NoErr
                      /\ PastScalar(n.r)
                      /\ ~IsDefined(n.res.iter)
                      /\ Stub(kind, n.r, n.res.iter)
            /\ tree.t = kind
                   => /\ n.r.err = NoErr /\ IsDefined(n.res.iter)
                      /\ x.r.err = NoErr /\ IsDefined(x.res.iter)
            /\ tree.t # kind
                   => /\ x.r.err.kind = "TypeError"
                      /\ x.r.err.expected = kind
                      /\ x.r.err.actual = tree.t
                      /\ ~IsDefined(x.res.iter)
                      /\ Stub(kind, x.r, x.res.iter)

\* Array() was the first read of the document null: it latched its type
\* error and the caller holds no iterator
C12_Witness ==
    /\ ret.op = "Read"
    /\ ret.pre.phase \in {"fresh", "pp"}
    /\ tree = JsonNull
    /\ r.err.kind = "TypeError"
    /\ r.err.expected = ArrayValue
    /\ ~r.err.nullable
    /\ ~IsDefined(ret.res.iter)
    /\ stack = <<>>

\* The literal is an integer that int64 cannot hold
OutOfInt64(lit) ==
    LET neg == lit[1] = "-"
        d == StripZeros(IF neg THEN Tail(lit) ELSE lit)
    IN  /\ d # <<>>
        /\ AllDigits(d)
        /\ ~DigitsLE(d, IF neg THEN MinInt64Digits ELSE MaxInt64Digits)

\* C13: on a document that is an integer literal outside the int64 range,
\* read in streaming mode or after PreProcess, with or without a buffer of
\* computed numbers, Int64() returns 0 and Int64OrNull() returns (0, false),
\* both leave a range error latched, and a read after it returns zero and
\* keeps the error.
C13_Int64Range ==
    (Alive /\ r.err = NoErr /\ phase \in {"fresh", "pp"}
       /\ tree.t = NumberValue /\ OutOfInt64(tree.raw))
        => \A x \in {Int64(r)}, n \in {Int64OrNull(r)} :
               /\ x.res = ZeroRes
               /\ x.r.err = RangeError
               /\ n.res = ZeroRes
               /\ n.r.err = RangeError
               /\ Int64(x.r).res = ZeroRes
               /\ Int64(x.r).r.err = RangeError

\* C14: AddError(e) sets the latch to e when it is clear and otherwise leaves
\* it, ReplaceError(e) sets it to e unless e is nil, and in every step of a
\* caller that does not Reset a latched error stays latched and is changed by
\* ReplaceError only.
C14_LatchKept ==
    [][/\ ret'.op = "AddError"
           => Error(r') = IF Error(r) = NoErr THEN ret'.res.err ELSE Error(r)
       /\ ret'.op = "ReplaceError"
           => Error(r') = IF ret'.res.err # NoErr THEN ret'.res.err ELSE Error(r)
       /\ Error(r) # NoErr => Error(r') # NoErr
       /\ (Error(r) # NoErr /\ Error(r') # Error(r)) => ret'.op = "ReplaceError"]_vars

\* AddError was called on a reader that a syntax error had latched, and the
\* syntax error is still the reader's error
C14_Witness ==
    /\ ret.op = "AddError"
    /\ ret.res.err = errInjected
    /\ ret.pre.err.kind = "SyntaxError"
    /\ Error(r) = ret.pre.err

\* The methods of the Reader and of its iterators that parse
ParsingOps == {"Read", "Null", "SkipValue", "ArrayNext", "ObjectNext"}

\* C15: on a failed reader no typed read, Any, SkipValue or iterator Next()
\* changes the byte position, the pending pushed-back token or the descriptor
\* cursor, in streaming and in lazy-read mode.
C15_FailedStaysPut ==
    [][(Error(r) # NoErr /\ ret'.op \in ParsingOps)
          => /\ r'.tr.pos = r.tr.pos
             /\ r'.tr.hasUnread = r.tr.hasUnread
             /\ r'.tr.structBuffer.Pos = r.tr.structBuffer.Pos]_vars

\* C16: after PreProcess on a document whose value is malformed, [bad,1,2]
\* or {"a":1, x: 2, "c":3}, the reader PreProcess was called on has failed.
C16_PreProcessReports ==
    (ret.op = "PreProcess" /\ doc \in {BadArrayDoc, BadObjectDoc}) => Error(r) # NoErr

\* C17: when Any(), called on a reader that has not failed, meets a parsing
\* error, the reader has failed after the call and the value returned is
\* what Any() returns for a null: an AnyValue, not nil, whose Kind is
\* NullValue.
C17_AnyOnError ==
    (Alive /\ Error(r) = NoErr /\ CanRead)
        => \A a \in {Any(r)} :
               (Error(a.r) # NoErr /\ ~a.r.tr.panicked)
                   => /\ ~a.res.nil
                      /\ a.res.any.Kind = NullValue

\* The offset of the first byte after the value PreProcess walked: the
\* length of a valid document, and 3 in 100,"extra"
EndOfValue == IF tree # NoTree THEN Len(doc) ELSE 3

\* C18: SyncWithPreProcess on a reader in lazy-read mode, wherever the
\* descriptor cursor is and whatever was read, leaves the reader in streaming
\* mode at the first byte after the value PreProcess walked, with no
\* pushed-back token before that byte, and changes nothing else; on a reader
\* in streaming mode, and on a reader without a struct buffer, it changes
\* nothing.
C18_SyncResumes ==
    Alive =>
        \A s \in {SyncWithPreProcess(r)},
           q \in {NewReaderWithBuffers(doc, {"structBuffer", "StringValues", "NumberValues"})} :
            /\ (r.tr.options.lazyRead /\ doc # BadArrayDoc)
                   => /\ ~s.tr.options.lazyRead
                      /\ s.tr.pos = EndOfValue
                      /\ ~s.tr.hasUnread
                      /\ s = [r EXCEPT !.tr.options.lazyRead = FALSE, !.tr.pos = s.tr.pos]
            /\ ~r.tr.options.lazyRead => s = r
            /\ SyncWithPreProcess(q) = q

RECURSIVE Nodes(_), NodesOf(_, _), Ranges(_, _, _), ItemRanges(_, _, _), PairRanges(_, _, _)

\* The number of JSON values in t, t included
Nodes(t) == 1 + NodesOf(t, 1)

\* The number of values in the elements of t from the i-th on
NodesOf(t, i) == IF i > Size(t) THEN 0 ELSE Nodes(Elem(t, i)) + NodesOf(t, i + 1)

\* The values of t in document order, t written at offset start as the
\* value of the member key (<<>> if it is no member): the byte range, the
\* number of values and the name of each
Ranges(t, start, key) ==
    <<[Start |-> start, End |-> start + Len(JsonToString(t)),
       SubTreeSize |-> Nodes(t), AssocValue |-> key]>>
    \o (IF t.t = "array" THEN ItemRanges(t.items, 1, start + 1)
        ELSE IF t.t = "object" THEN PairRanges(t.pairs, 1, start + 1)
        ELSE <<>>)

\* at is the offset after the '[' or the ',' before the i-th element
ItemRanges(items, i, at) ==
    IF i > Len(items) THEN <<>>
    ELSE Ranges(items[i], at, <<>>)
         \o ItemRanges(items, i + 1, at + Len(JsonToString(items[i])) + 1)

\* at is the offset of the opening quote of the i-th member's name; its
\* value follows the name, the closing quote, the colon and a space
PairRanges(pairs, i, at) ==
    IF i > Len(pairs) THEN <<>>
    ELSE Ranges(pairs[i].v, at + Len(pairs[i].k) + 4, pairs[i].k)
         \o PairRanges(pairs, i + 1,
                       at + Len(pairs[i].k) + 4 + Len(JsonToString(pairs[i].v)) + 1)

\* What the descriptors of a table say of their values
Described(table) ==
    [i \in 1..Len(table) |->
        [Start |-> table[i].Start, End |-> table[i].End,
         SubTreeSize |-> table[i].SubTreeSize, AssocValue |-> table[i].AssocValue]]

\* C19: after PreProcess of a valid document the descriptor table has one
\* descriptor for each value of the document, in document order, with the
\* byte range [Start, End) of the value, the number of values of its subtree
\* as SubTreeSize (1 for a scalar, the table's length for the document) and,
\* for the value of an object member, the member's name as AssocValue.
C19_DescriptorTable ==
    (ret.op = "PreProcess" /\ tree # NoTree)
        => /\ Described(r.tr.structBuffer.Values) = Ranges(tree, 0, <<>>)
           /\ r.tr.structBuffer.Pos = 0
           /\ r.tr.options.lazyRead

\* PreProcess has walked an object whose member is a container with an
\* element
C19_Witness ==
    /\ ret.op = "PreProcess"
    /\ tree.t = "object"
    /\ Len(r.tr.structBuffer.Values) = 3
    /\ r.tr.structBuffer.Values[2].AssocValue = Key(1)
    /\ r.tr.structBuffer.Values[2].SubTreeSize = 2
    /\ r.tr.structBuffer.Values[1].SubTreeSize = 3

\* NewReaderWithBuffers over the document, with the buffers of rd
Fresh(rd) == NewReaderWithBuffers(doc, rd.tr.nilBuffers)

\* The calls and walks a caller starts a document with, in streaming mode
\* and after PreProcess
FirstCalls == PairedReads \cup {"Null", "Array", "Object", "Any", "SkipValue", "RequireEOF",
                                "Build", "printValue", "PreProcess, Build",
                                "PreProcess, printValue"}

\* What a caller sees of the result of Any: nil, or the Kind and the field
\* of that Kind
AnySeen(res) ==
    IF res.nil THEN <<"nil">>
    ELSE IF res.any.Kind = BoolValue THEN <<BoolValue, res.any.Bool>>
    ELSE IF res.any.Kind = NumberValue THEN <<NumberValue, res.any.Number>>
    ELSE IF res.any.Kind = StringValue THEN <<StringValue, res.any.String>>
    ELSE IF res.any.Kind = ArrayValue THEN <<ArrayValue, IsDefined(res.any.Array)>>
    ELSE IF res.any.Kind = ObjectValue THEN <<ObjectValue, IsDefined(res.any.Object)>>
    ELSE <<NullValue>>

\* What the caller sees of one of them: the values returned and Error()
Outcome(op, rd) ==
    IF op \in PairedReads
    THEN <<Seen(Plain(op, rd).res), Error(Plain(op, rd).r),
           Seen(OrNull(op, rd).res), Error(OrNull(op, rd).r)>>
    ELSE IF op = "Null" THEN <<Null(rd).res.err, Error(Null(rd).r)>>
    ELSE IF op = "Array"
    THEN <<IsDefined(Array(rd).res.iter), Error(Array(rd).r),
           IsDefined(ArrayOrNull(rd).res.iter), Error(ArrayOrNull(rd).r)>>
    ELSE IF op = "Object"
    THEN <<IsDefined(Object(rd).res.iter), Error(Object(rd).r),
           IsDefined(ObjectOrNull(rd).res.iter), Error(ObjectOrNull(rd).r)>>
    ELSE IF op = "Any" THEN <<AnySeen(Any(rd).res), Error(Any(rd).r)>>
    ELSE IF op = "SkipValue" THEN <<SkipValue(rd).res.err, Error(SkipValue(rd).r)>>
    ELSE IF op = "RequireEOF" THEN <<RequireEOF(rd).res.err, Error(RequireEOF(rd).r)>>
    ELSE IF op = "Build" THEN <<Build(rd).v, Error(Build(rd).r)>>
    ELSE IF op = "printValue" THEN <<printValue(rd).n, Error(printValue(rd).r)>>
    ELSE IF op = "PreProcess, Build"
    THEN <<Build(PreProcess(rd)).v, Error(Build(PreProcess(rd)).r)>>
    ELSE <<printValue(PreProcess(rd)).n, Error(printValue(PreProcess(rd)).r)>>

\* C20: after Reset(data), whatever the reader's state was, Error() is nil,
\* the reader is at offset 0 of data in streaming mode with no pushed-back
\* token, its options are those of a new reader, its buffers are empty, and
\* every call and walk returns what it returns on a reader that
\* NewReaderWithBuffers made over data with the same buffers.
C20_ResetIsFresh ==
    ret.op = "Reset"
        => /\ Error(r) = Error(Fresh(r))
           /\ r.tr.data = doc
           /\ r.tr.pos = 0
           /\ ~r.tr.hasUnread
           /\ ~r.awaitingReadValue
           /\ r.tr.options = Fresh(r).tr.options
           /\ r.tr.charBuffer = <<>>
           /\ r.tr.structBuffer = [Pos |-> 0, Values |-> <<>>]
           /\ r.tr.computedValuesBuffer = [NumberValues |-> <<>>, StringValues |-> <<>>]
           /\ \A op \in FirstCalls : Outcome(op, r) = Outcome(op, Fresh(r))

\* The value a string literal of the tests stands for
Decoded(s) == (CHOOSE x \in TextStrings : Quoted(x.enc) = s).val

\* The literal has no escape sequence
NoEscapes(s) == \A i \in 1..Len(s) : s[i] # "\\"

\* The reader stands before a value of the document's tree that the caller
\* has come to by reading every element it was given
AtNode == AtValue /\ EveryElementRead /\ tree # NoTree /\ PathOk(tree, Len(stack), 1)

RawReads == {"Int64", "UInt64", "Float64"}

\* The value of the literal as the host's parser reads its bytes
ByRaw(op, lit) ==
    IF op = "Int64" THEN [ZeroRes EXCEPT !.int = ParseInt(lit).v]
    ELSE IF op = "UInt64" THEN [ZeroRes EXCEPT !.int = ParseUint(lit).v]
    ELSE [ZeroRes EXCEPT !.float = ParseFloat(lit).v]

\* The value and the error of the conversion of the literal's NumberProps
ByProps(op, lit) ==
    Let([n \in {readNumberProps(lit, 0).props} |->
        IF op = "Int64" THEN NumberPropsInt64(n)
        ELSE IF op = "UInt64" THEN NumberPropsUInt64(n)
        ELSE NumberPropsFloat64(n)])

\* The conversion x has returned what the path chosen by raw returns
Converted(op, x, raw, lit) ==
    IF raw THEN x.res = ByRaw(op, lit)
    ELSE /\ x.r.err = ByProps(op, lit).err
         /\ x.res = IF op = "Float64" THEN [ZeroRes EXCEPT !.float = ByProps(op, lit).v]
                    ELSE [ZeroRes EXCEPT !.int = ByProps(op, lit).v]

\* The reader stands before a document that is a number
AtNumber == Alive /\ r.err = NoErr /\ phase \in {"fresh", "pp"} /\ tree.t = "number"

\* C23: after SetNumberRawRead(true) Int64, UInt64 and Float64 return the
\* value the host's parser reads from the raw bytes of the literal, after
\* SetNumberRawRead(false) the value and the error of the NumberProps
\* conversion, in streaming mode and after PreProcess.
C23_RawReadSelects ==
    AtNumber
        => \A op \in RawReads : \A x \in {Plain(op, r)} :
               Converted(op, x, r.tr.options.readRawNumbers, tree.raw)

\* The bytes a token starts with: a letter of a literal name, a digit or a
\* sign of a number, a quote, a delimiter
TokenStart == Lower \cup Digit \cup {"-", "\""} \cup Delims

\* A streaming reader between two tokens, with input left
BetweenTokens ==
    /\ Alive /\ r.err = NoErr
    /\ ~r.tr.options.lazyRead /\ ~r.tr.hasUnread
    /\ r.tr.pos >= 0 /\ r.tr.pos < r.tr.len

\* C24: between tokens a byte 0x20, 0x09, 0x0A or 0x0D is skipped (the next
\* token is the one read from the byte after it), and any other byte that
\* starts no token, 0x0B, 0x0C, 0x85 and 0xA0 among them, is not skipped: the
\* next token read is a syntax error "unexpected character" with that byte
\* at its offset, and Any latches it.
C24_WhitespaceSet ==
    BetweenTokens
        => \A b \in {r.tr.data[r.tr.pos + 1]} :
               /\ IsJsonSpace(b)
                    => \A n \in {next(r.tr)} :
                           /\ n.t.pos > r.tr.pos + 1 \/ n.t.pos = r.tr.len
                           /\ n = next([r.tr EXCEPT !.pos = r.tr.pos + 1])
               /\ (~IsJsonSpace(b) /\ b \notin TokenStart)
                    => /\ next(r.tr).err = SyntaxError(errMsgUnexpectedChar, <<b>>, r.tr.pos)
                       /\ Any(r).r.err = SyntaxError(errMsgUnexpectedChar, <<b>>, r.tr.pos)

\* The offset of the first byte of the token the reader rd stands before:
\* the start of the current descriptor after PreProcess, the first byte
\* from the position on that is no whitespace in streaming mode
TokenOffset(rd) ==
    IF rd.tr.options.lazyRead THEN CurrentStruct(rd.tr.structBuffer).s.Start
    ELSE FirstFrom(rd.tr.data, rd.tr.pos + 1, NotJsonSpace) - 1

\* The reader stands before a token no look-ahead has read
BeforeToken ==
    /\ Alive /\ r.err = NoErr /\ CanRead
    /\ IF r.tr.options.lazyRead THEN CurrentStruct(r.tr.structBuffer).ok
       ELSE ~r.tr.hasUnread /\ r.tr.pos >= 0

Located(e, rd) == e.kind \in {"SyntaxError", "TypeError"} => e.offset = TokenOffset(rd)

\* C25: a SyntaxError or a TypeError that a typed read latches, or that Null
\* returns, has the offset of the first byte of the token the read was
\* called before (for a string, the offset of its opening quote), in
\* streaming mode and after PreProcess.
C25_ErrorOffset ==
    BeforeToken
        => /\ \A op \in PairedReads : Located(Plain(op, r).r.err, r)
           /\ Located(Array(r).r.err, r)
           /\ Located(Object(r).r.err, r)
           /\ Located(Null(r).res.err, r)

\* C27: SkipValue on a streaming reader does not crash: whatever is next in
\* the input, a malformed value, a closing delimiter with nothing open or
\* the end of the input among them, it returns the reader's latched error,
\* which is set when Any() returned no value.
C27_SkipValueSafe ==
    (Alive /\ CanRead /\ ~r.tr.options.lazyRead)
        => \A x \in {SkipValue(r)} :
               /\ ~x.r.tr.panicked
               /\ x.res.err = x.r.err
               /\ (r.err = NoErr /\ Any(r).res.nil) => x.r.err # NoErr

Streaming == Alive /\ ~r.tr.options.lazyRead /\ ~r.tr.hasUnread /\ r.tr.pos >= 0

\* The token n is the delimiter b
IsDelimiter(n, b) ==
    n.err = NoErr /\ ~n.nil /\ n.tok.kind = delimiterToken /\ n.tok.delimiter = b

BadItem(e, closer) ==
    /\ e.kind = "SyntaxError"
    /\ e.msg = IF closer = "]" THEN errMsgBadArrayItem ELSE errMsgBadObjectItem

\* C29: in streaming mode EndDelimiterOrComma(closer) returns (true, nil) on
\* the closer and (false, nil) on a comma, and has consumed it; on any other
\* valid token and at the end of the input it returns a SyntaxError with the
\* message "bad array item" for `]` and "bad object item" for `}`.
C29_EndDelimiterOrComma ==
    Streaming
        => \A closer \in {"]", "}"} :
             \A e \in {EndDelimiterOrComma(r.tr, closer)} : \A n \in {next(r.tr)} :
               /\ (IsDelimiter(n, closer) \/ IsDelimiter(n, ","))
                    => /\ e.err = NoErr
                       /\ e.isEnd = IsDelimiter(n, closer)
                       /\ e.t.pos = n.t.pos /\ ~e.t.hasUnread
               /\ (n.err = NoErr /\ ~n.nil /\ ~IsDelimiter(n, closer) /\ ~IsDelimiter(n, ","))
                    => ~e.isEnd /\ BadItem(e.err, closer)
               /\ n.err = EOFError => ~e.isEnd /\ BadItem(e.err, closer)

\* The offset of the first byte of the token a streaming reader stands
\* before, a token Delimiter has pushed back included
NameOffset(t) ==
    IF t.hasUnread THEN t.lastPos ELSE FirstFrom(t.data, t.pos + 1, NotJsonSpace) - 1

\* The reader stands before a well-formed string: the first thing in the
\* input, or the token that Delimiter has looked at
AtName ==
    /\ Alive /\ ~r.tr.options.lazyRead /\ r.tr.pos >= 0
    /\ r.tr.hasUnread => (ret.op = "Delimiter" /\ r.tr.unreadToken.kind = stringToken)
    /\ NameOffset(r.tr) < r.tr.len
    /\ r.tr.data[NameOffset(r.tr) + 1] = "\""
    /\ scanString(r.tr.data, NameOffset(r.tr) + 1, FALSE) >= 0

\* C30: PropertyName before a member's name returns the bytes between the
\* quotes with the escape sequences as they are in the input, with and
\* without a StringValues buffer, for the first member after `{` (whose name
\* Delimiter('}') has parsed and pushed back) as for the later ones, when
\* the token after the name is a colon; it returns an error when it is not.
C30_PropertyNameRaw ==
    AtName
        => \A p \in {PropertyName(r.tr)} :
           \A q \in {scanString(r.tr.data, NameOffset(r.tr) + 1, FALSE)} :
           \A c \in {FirstFrom(r.tr.data, q + 2, NotJsonSpace)} :
               IF c <= r.tr.len /\ r.tr.data[c] = ":"
               THEN /\ p.err = NoErr
                    /\ p.name = Slice(r.tr.data, NameOffset(r.tr) + 1, q)
                    /\ p.t.pos = c /\ ~p.t.hasUnread
               ELSE p.err # NoErr

\* What a token is, without what the token buffer keeps of earlier tokens
TokenId(tok) ==
    [kind |-> tok.kind,
     bool |-> IF tok.kind = boolToken THEN tok.boolValue ELSE FALSE,
     raw |-> IF tok.kind = numberToken THEN tok.numberValue.raw ELSE <<>>,
     str |-> IF tok.kind = stringToken THEN tok.stringValue ELSE <<>>,
     delim |-> IF tok.kind = delimiterToken THEN tok.delimiter ELSE ""]

DelimId(b) == [kind |-> delimiterToken, bool |-> FALSE, raw |-> <<>>, str |-> <<>>, delim |-> b]

\* The tokens of the input from the position of t on, up to its end or to
\* the first malformed token
RECURSIVE Lex(_)
Lex(t) ==
    Let([n \in {next(t)} |->
        IF n.nil \/ n.err # NoErr THEN <<>>
        ELSE <<TokenId(n.tok)>> \o Lex(n.t)])

\* The tokens t has still to deliver: the pushed-back one and the input's
Rest(t) ==
    IF t.hasUnread THEN <<TokenId(t.unreadToken)>> \o Lex([t EXCEPT !.hasUnread = FALSE])
    ELSE Lex(t)

Drop(s, k) == SubSeq(s, k + 1, Len(s))

\* The call that left x.t has taken the first k tokens of rest and no other
Took(x, k, rest) == Len(rest) >= k /\ Rest(x.t) = Drop(rest, k)

\* A call that leaves a token pushed back where one was has read no byte
Kept(x) ==
    (r.tr.hasUnread /\ x.t.hasUnread)
        => x.t.pos = r.tr.pos /\ x.t.unreadToken = r.tr.unreadToken

\* C31: in streaming mode every call of the token reader that returns
\* without an error takes the tokens it delivers from the front of the
\* tokens still to come, the pushed-back token first, and leaves the others
\* as they are: no token is delivered twice, lost or read out of order, and
\* no byte is read while a token stays pushed back.
C31_OneTokenPushback ==
    (Alive /\ ~r.tr.options.lazyRead /\ r.tr.pos >= 0)
        => \A rest \in {Rest(r.tr)} :
            /\ \A b \in Asked : \A d \in {Delimiter(r.tr, b)} :
                   /\ Kept(d)
                   /\ d.err = NoErr => Took(d, IF d.got THEN 1 ELSE 0, rest)
                   /\ d.got => rest[1] = DelimId(b)
            /\ \A b \in {"]", "}"} : \A e \in {EndDelimiterOrComma(r.tr, b)} :
                   /\ Kept(e)
                   /\ e.err = NoErr
                        => Took(e, 1, rest) /\ rest[1] = DelimId(IF e.isEnd THEN b ELSE ",")
            /\ \A p \in {PropertyName(r.tr)} :
                   p.err = NoErr
                     => /\ Took(p, 2, rest)
                        /\ rest[1].kind = stringToken /\ rest[2] = DelimId(":")
            /\ \A n \in {trNull(r.tr)} :
                   /\ Kept(n)
                   /\ n.err = NoErr => Took(n, IF n.isNull THEN 1 ELSE 0, rest)
                   /\ n.isNull => rest[1].kind = nullToken
            /\ \A a \in {trAny(r.tr)} :
                   (a.err = NoErr /\ ~a.nil) => Took(a, 1, rest)
            /\ \A s \in {trString(r.tr)} :
                   s.err = NoErr => Took(s, 1, rest) /\ rest[1].str = s.v
            /\ \A n \in {trNumber(r.tr)} :
                   n.err = NoErr => Took(n, 1, rest) /\ rest[1].raw = n.v.raw

\* A token was pushed back and the call after has delivered it
C31_Witness ==
    /\ ret.op = "Read" /\ ret.res.err = NoErr /\ ~ret.res.nil
    /\ ret.res.any.Kind = StringValue
    /\ ~r.tr.hasUnread /\ r.tr.unreadToken.kind = stringToken
    /\ Len(Rest(r.tr)) >= 2

\* The four reads that open a container
Openers == {"Array", "ArrayOrNull", "Object", "ObjectOrNull"}

OpenWith(op, rd) ==
    CASE op = "Array" -> Array(rd)
      [] op = "ArrayOrNull" -> ArrayOrNull(rd)
      [] op = "Object" -> Object(rd)
      [] op = "ObjectOrNull" -> ObjectOrNull(rd)

\* C32: when Array, ArrayOrNull, Object or ObjectOrNull returns a defined
\* iterator, no token is left pushed back, in streaming mode and after
\* PreProcess, and in streaming mode the opening delimiter is the one token
\* taken from the tokens still to come: the next read gets the first element.
C32_OpenerConsumed ==
    (Alive /\ r.err = NoErr /\ CanRead /\ r.tr.pos >= 0)
        => \A op \in Openers : \A x \in {OpenWith(op, r)} :
               x.res.iter.r
                 => /\ ~x.r.tr.hasUnread
                    /\ ~r.tr.options.lazyRead
                         => /\ Took([t |-> x.r.tr], 1, Rest(r.tr))
                            /\ Rest(r.tr)[1] = DelimId(IF op \in {"Array", "ArrayOrNull"}
                                                       THEN "[" ELSE "{")

\* A streaming reader with a look-ahead token pending and the buffers that
\* PreProcess needs
PendingBeforePreProcess ==
    /\ Alive /\ r.err = NoErr
    /\ ~r.tr.options.lazyRead /\ r.tr.hasUnread
    /\ "structBuffer" \notin r.tr.nilBuffers /\ "charBuffer" \notin r.tr.nilBuffers

\* C33: when PreProcess is called while a look-ahead token is pending, the
\* value that starts with that token is pre-processed and the token is not
\* delivered again: the lazy read after PreProcess advances the descriptor
\* cursor, and after SyncWithPreProcess no token is pending and the position
\* is the end of the pre-processed value.
C33_PendingAtPreProcess ==
    PendingBeforePreProcess
        => \A p \in {PreProcess(r)} :
               (Len(p.tr.structBuffer.Values) > 0 /\ ~p.tr.panicked)
                 => /\ \A x \in {Any(p)} :
                           x.r.tr.structBuffer.Pos > p.tr.structBuffer.Pos
                    /\ \A s \in {SyncWithPreProcess(p)} :
                           /\ ~s.tr.hasUnread
                           /\ s.tr.pos = p.tr.structBuffer.Values[1].End

PositionsAfter(rd) ==
    {Plain(op, rd).r.tr.pos : op \in PairedReads}
    \cup {OrNull(op, rd).r.tr.pos : op \in PairedReads}
    \cup {OpenWith(op, rd).r.tr.pos : op \in Openers}
    \cup {Null(rd).r.tr.pos, Any(rd).r.tr.pos, SkipValue(rd).r.tr.pos,
          RequireEOF(rd).r.tr.pos}

\* C35: in lazy-read mode no typed read, Any, Array, Object, SkipValue or
\* RequireEOF changes the byte position of the token reader, and a scalar
\* read that succeeds moves the descriptor cursor by one descriptor.
C35_LazyKeepsPosition ==
    (Alive /\ r.tr.options.lazyRead)
        => /\ PositionsAfter(r) = {r.tr.pos}
           /\ ~r.tr.hasUnread
                => \A op \in PairedReads : \A x \in {Plain(op, r)} :
                       (r.err = NoErr /\ x.r.err = NoErr)
                         => x.r.tr.structBuffer.Pos = r.tr.structBuffer.Pos + 1

\* The awaiting-read flag after each Reader operation that reads or skips a
\* value, called on rd
AwaitingAfter(rd) ==
    {Plain(op, rd).r.awaitingReadValue : op \in PairedReads}
    \cup {OrNull(op, rd).r.awaitingReadValue : op \in PairedReads}
    \cup {OpenWith(op, rd).r.awaitingReadValue : op \in Openers}
    \cup {Null(rd).r.awaitingReadValue, Any(rd).r.awaitingReadValue}

\* C36: every Reader operation that reads or skips a value clears the
\* awaiting-read flag, SkipValue in lazy-read mode included, so that the
\* Next() after a read or an explicit skip of the element skips no value.
C36_ReadsClearAwaiting ==
    (Alive /\ r.awaitingReadValue)
        => /\ AwaitingAfter(r) = {FALSE}
           /\ ~SkipValue(r).r.awaitingReadValue

\* The descriptors i+1 .. i+n-1 (0-based i) lie inside descriptor i and the
\* one after them, if there is one, starts at or after its end
SubTreeAt(values, i, n) ==
    /\ n >= 1 /\ i + n <= Len(values)
    /\ \A j \in (i + 1)..(i + n - 1) :
           values[j + 1].Start > values[i + 1].Start /\ values[j + 1].End <= values[i + 1].End
    /\ i + n < Len(values) => values[i + n + 1].Start >= values[i + 1].End

ComputedFrom(p, d) ==
    LET b == p.tr.data[d.Start + 1]
        cv == p.tr.computedValuesBuffer
    IN  /\ (b \in Digit \cup {"-"} /\ p.tr.options.computeNumber)
             => /\ d.ComputedValueType = "NumberComputed"
                /\ d.ComputedValueIndex >= 0
                /\ d.ComputedValueIndex < Len(cv.NumberValues)
                /\ \A n \in {readNumberProps(p.tr.data, d.Start)} :
                       cv.NumberValues[d.ComputedValueIndex + 1] = n.props
        /\ (b = "\"" /\ p.tr.options.computeString)
             => /\ d.ComputedValueType = "StringComputed"
                /\ d.ComputedValueIndex >= 0
                /\ d.ComputedValueIndex < Len(cv.StringValues)
                /\ \A s \in {decodeString(p.tr.data, d.Start + 1, <<>>)} :
                       cv.StringValues[d.ComputedValueIndex + 1] = s.chars

\* A streaming reader with the two buffers PreProcess needs
CanPreProcess ==
    /\ Alive /\ r.err = NoErr /\ ~r.tr.options.lazyRead
    /\ "structBuffer" \notin r.tr.nilBuffers /\ "charBuffer" \notin r.tr.nilBuffers

\* C38: after PreProcess the ComputedValueIndex of every descriptor of a
\* number is the index of the NumberProps of that literal in NumberValues,
\* and that of every descriptor of a string is the index of the decoded bytes
\* of that string in StringValues, when the buffer is configured; also when
\* the value's first token, or the first property name of an object, was
\* read by a look-ahead and pushed back before PreProcess.
C38_ComputedValueIndex ==
    CanPreProcess
        => \A p \in {PreProcess(r)} :
               ~p.tr.panicked
                 => \A j \in 1..Len(p.tr.structBuffer.Values) :
                        ComputedFrom(p, p.tr.structBuffer.Values[j])

\* The innermost iterator the caller holds has returned false at the closing
\* delimiter
DoneOnTop == stack # <<>> /\ stack[Len(stack)].it.state = "Done"

TopNext(rd) ==
    IF stack[Len(stack)].kind = "array" THEN ArrayNext(rd, stack[Len(stack)].it)
    ELSE ObjectNext(rd, stack[Len(stack)].it)

\* The bytes the reader has not read yet are exhausted
InputExhausted(rd) == Rest(rd.tr) = <<>>

\* The walk PreProcess runs on its copy of rd
Walked(rd) ==
    preProcess([rd EXCEPT !.tr.options.lazyParse = TRUE,
                          !.tr.options.lazyRead = FALSE,
                          !.tr.structBuffer.Values = <<>>,
                          !.tr.charBuffer = <<>>,
                          !.tr.computedValuesBuffer.StringValues = <<>>,
                          !.tr.computedValuesBuffer.NumberValues = <<>>])

\* Every descriptor of the table starts after the one before it
StartsAscend(values) ==
    \A j \in 1..(Len(values) - 1) : values[j].Start < values[j + 1].Start

\* C40: on every input, whole or cut short, a Next() that returns true has
\* read at least one byte in streaming mode, and in lazy-read mode has moved
\* the descriptor cursor forward when it is the first Next() of its container
\* or the element before it is unread, as in the loops of SkipValue; a Next()
\* that ends with an error or finds the input exhausted returns false.
\* SkipValue and the walk of PreProcess end with the position between where
\* they started and the end of the input, and the table has at most one
\* descriptor for each byte, in ascending order of their offsets.
C40_NextMakesProgress ==
    /\ (Alive /\ stack # <<>>)
         => \A n \in {TopNext(r)} :
                /\ (n.ok /\ ~r.tr.options.lazyRead) => n.r.tr.pos > r.tr.pos
                /\ (n.ok /\ r.tr.options.lazyRead
                         /\ (r.awaitingReadValue \/ stack[Len(stack)].it.state = "BeforeFirst"))
                     => n.r.tr.structBuffer.Pos > r.tr.structBuffer.Pos
                /\ (n.r.err # NoErr \/ n.r.tr.panicked) => ~n.ok
                /\ (~r.tr.options.lazyRead /\ InputExhausted(r)) => ~n.ok
    /\ (Alive /\ ~r.tr.options.lazyRead)
         => /\ \A s \in {SkipValue(r)} :
                   s.r.tr.pos >= r.tr.pos /\ s.r.tr.pos <= r.tr.len
            /\ \A w \in {Walked(r)} :
                   /\ w.tr.pos >= r.tr.pos /\ w.tr.pos <= r.tr.len
                   /\ Len(w.tr.structBuffer.Values) <= r.tr.len
                   /\ StartsAscend(w.tr.structBuffer.Values)

============================================================================
